---------------------------- MODULE Spec2Model ----------------------------
(***************************************************************************)
(* A model of the ACF schema-resolution-and-transform pipeline:            *)
(*   acf/index.py, acf/clone_resolver.py, acf/field_path_builder.py,       *)
(*   acf/parser.py, acf/defaults.py, acf/transformer.py.                   *)
(*                                                                         *)
(* Strings are sequences of tokens.  A token stands for a run of           *)
(* characters that holds none of the separators "_", ".", "[" and "]";     *)
(* the separators are tokens of their own, so f"{a}_{b}" is                *)
(* a \o <<"_">> \o b and f"{p}.{n}" is p \o <<".">> \o n.                  *)
(* A dict is a sequence of entries with pairwise distinct keys, in         *)
(* insertion order, as a Python dict is.                                   *)
(***************************************************************************)
EXTENDS Integers, Sequences, FiniteSets, TLC

VARIABLES export, index, call

vars == <<export, index, call>>

(***************************************************************************)
(* Bounds of the model.                                                    *)
(***************************************************************************)
\* The longest reference list of the layout's clone field.
MaxRefs == 2
\* The interpreter's call-stack limit (sys.getrecursionlimit()), scaled to
\* the schemas of the model and counted in nested calls of
\* build_field_paths: no terminating call of the model nests deeper.  (The
\* recursion of resolve_clone alone adds a key of the index to the visited
\* set at every level, so it needs no limit.)
MaxDepth == 4
\* The most fields of a user section.
MaxKeys == 2
\* The longest list of sections given to transform_to_acf.
MaxSections == 3
\* The most groups of an export given to ACFIndex.
MaxGroups == 2
\* The most assignments a caller makes to a tree it was given.
MaxWrites == 2

(***************************************************************************)
(* Strings and sequences.                                                  *)
(***************************************************************************)
EmptyStr == << >>

Str(tok) == <<tok>>

\* f"{clone_key}_{key}"
Underscore(a, b) == a \o <<"_">> \o b

\* f"{prefix}.{name}" if prefix else name
DotJoin(prefix, name) == IF prefix = EmptyStr THEN name ELSE prefix \o <<".">> \o name

SeqsUpTo(n, S) == UNION {[1..k -> S] : k \in 0..n}

Range(s) == {s[i] : i \in 1..Len(s)}

Front(s) == SubSeq(s, 1, Len(s) - 1)

Last(s) == s[Len(s)]

\* The orders in which a set can be iterated.
Orders(S) == {s \in [1..Cardinality(S) -> S] : Range(s) = S}

(***************************************************************************)
(* Schema fields (spec section 6: the schema export).                      *)
(***************************************************************************)
Field(key, type, name, subs, refs) ==
    [key |-> key, type |-> type, name |-> name, sub_fields |-> subs,
     clone |-> refs, layouts |-> << >>]

LeafField(key, name) == Field(Str(key), "text", name, << >>, << >>)

CloneField(key, name, refs) == Field(Str(key), "clone", Str(name), << >>, refs)

Layout(lkey, name, subs) ==
    [lkey |-> Str(lkey), name |-> Str(name), named |-> TRUE, sub_fields |-> subs]

\* A layout entry without a "name".
UnnamedLayout(lkey, subs) ==
    [lkey |-> Str(lkey), name |-> EmptyStr, named |-> FALSE, sub_fields |-> subs]

FlexField(key, name, layouts) ==
    [key |-> key, type |-> "flexible_content", name |-> Str(name),
     sub_fields |-> << >>, clone |-> << >>, layouts |-> layouts]

Group(key, fields) == [key |-> key, fields |-> fields]


(***************************************************************************)
(* Dicts: sequences of entries [k, ...] with distinct keys.                *)
(***************************************************************************)
HasKey(d, k) == \E i \in 1..Len(d) : d[i].k = k

Get(d, k) == d[CHOOSE i \in 1..Len(d) : d[i].k = k]

Keys(d) == {d[i].k : i \in 1..Len(d)}

\* d[e.k] = e: an existing key keeps its place, a new key goes last.
DictSet(d, e) ==
    IF HasKey(d, e.k)
    THEN LET i == CHOOSE j \in 1..Len(d) : d[j].k = e.k
         IN  SubSeq(d, 1, i - 1) \o <<e>> \o SubSeq(d, i + 1, Len(d))
    ELSE Append(d, e)

RECURSIVE DictUpdate(_, _)
\* d.update(other)
DictUpdate(d, other) ==
    IF other = << >> THEN d
    ELSE DictUpdate(DictSet(d, Head(other)), Tail(other))

(***************************************************************************)
(* ACFIndex (acf/index.py).  groups and fields are functions from keys.    *)
(***************************************************************************)
\* A variant of the assignment that keeps the entry a key already has.
PutKeepsFirst(f, k, v) == [x \in (DOMAIN f) \cup {k} |-> IF x \in DOMAIN f THEN f[x] ELSE v]

\* f[k] = v
Put(f, k, v) == [x \in (DOMAIN f) \cup {k} |-> IF x = k THEN v ELSE f[x]]

RECURSIVE IndexFields(_, _)
RECURSIVE IndexLayouts(_, _)
\* ACFIndex._index_fields: self.fields after indexing the list `fields`.
IndexFields(fields, acc) ==
    IF fields = << >> THEN acc
    ELSE LET field == Head(fields)
             a1 == IF field.key # EmptyStr THEN Put(acc, field.key, field) ELSE acc
             a2 == IndexFields(field.sub_fields, a1)
             a3 == IndexLayouts(field.layouts, a2)
         IN  IndexFields(Tail(fields), a3)

\* The loop over layouts.values() of ACFIndex._index_fields.
IndexLayouts(layouts, acc) ==
    IF layouts = << >> THEN acc
    ELSE IndexLayouts(Tail(layouts), IndexFields(Head(layouts).sub_fields, acc))

RECURSIVE IndexBuild(_, _)
\* ACFIndex._build
IndexBuild(groups, acc) ==
    IF groups = << >> THEN acc
    ELSE LET group == Head(groups) IN
         IF group.key = EmptyStr THEN IndexBuild(Tail(groups), acc)
         ELSE IndexBuild(Tail(groups),
                         [groups |-> Put(acc.groups, group.key, group),
                          fields |-> IndexFields(group.fields, acc.fields)])

\* ACFIndex.__init__
ACFIndex(export_data) == IndexBuild(export_data, [groups |-> << >>, fields |-> << >>])

(***************************************************************************)
(* The clone-reference graph of an index, read off the schema: an edge     *)
(* goes from a clone to each clone its references name, directly or as a   *)
(* field of a group they name.                                             *)
(***************************************************************************)
CloneTargetsOfRef(ref, idx) ==
    IF ref \in DOMAIN idx.groups
      THEN {f.key : f \in {g \in Range(idx.groups[ref].fields) : g.type = "clone"}}
    ELSE IF ref \in DOMAIN idx.fields /\ idx.fields[ref].type = "clone" THEN {ref}
    ELSE {}

CloneTargets(k, idx) ==
    UNION {CloneTargetsOfRef(idx.fields[k].clone[i], idx) :
             i \in 1..Len(idx.fields[k].clone)}

RECURSIVE CloneClosure(_, _)
\* The clones reachable from the clones of S in zero or more steps.
CloneClosure(S, idx) ==
    LET S2 == S \cup UNION {CloneTargets(k, idx) : k \in S}
    IN  IF S2 = S THEN S ELSE CloneClosure(S2, idx)

\* A cycle of the graph can be reached from clone k.
CyclicFrom(k, idx) ==
    \E x \in CloneClosure({k}, idx) : x \in CloneClosure(CloneTargets(x, idx), idx)

RECURSIVE SimpleChains(_, _)
\* The chains of clones that start with chain p and repeat no clone.
SimpleChains(p, idx) ==
    {p} \cup UNION {SimpleChains(Append(p, t), idx) :
                      t \in CloneTargets(p[Len(p)], idx) \ Range(p)}

\* The fields that are not clones and that the references of clone k name,
\* directly or as a field of a group.
DirectFieldsOfRef(ref, idx) ==
    IF ref \in DOMAIN idx.groups
      THEN {g \in Range(idx.groups[ref].fields) : g.type # "clone"}
    ELSE IF ref \in DOMAIN idx.fields /\ idx.fields[ref].type # "clone"
      THEN {idx.fields[ref]}
    ELSE {}

DirectFields(k, idx) ==
    UNION {DirectFieldsOfRef(idx.fields[k].clone[i], idx) :
             i \in 1..Len(idx.fields[k].clone)}

(***************************************************************************)
(* The clone resolver (acf/clone_resolver.py).  A call returns an outcome: *)
(* st = "ok" with the list, st = "circular" with the ValueError's visited  *)
(* set and key, or st = "recursion" (RecursionError: build_field_paths     *)
(* nested deeper than MaxDepth).  An exception ends every caller up to     *)
(* the action.                                                             *)
(***************************************************************************)
Ok(fields) == [st |-> "ok", fields |-> fields, chain |-> {}, at |-> EmptyStr]

CircularError(visited, key) ==
    [st |-> "circular", fields |-> << >>, chain |-> visited, at |-> key]

RecursionError == [st |-> "recursion", fields |-> << >>, chain |-> {}, at |-> EmptyStr]

RECURSIVE PrefixKeys(_, _)
\* A variant of _prefix_keys that puts the clone key after the field's key.
PrefixKeysSuffix(fields, clone_key) ==
    IF clone_key = EmptyStr \/ fields = << >> THEN fields
    ELSE <<[Head(fields) EXCEPT
              !.key = Underscore(@, clone_key),
              !.sub_fields = PrefixKeys(@, clone_key)]>>
         \o PrefixKeys(Tail(fields), clone_key)

\* A variant of _prefix_keys that forgets the field's own key.
PrefixKeysDropsKey(fields, clone_key) ==
    IF clone_key = EmptyStr \/ fields = << >> THEN fields
    ELSE <<[Head(fields) EXCEPT
              !.key = clone_key,
              !.sub_fields = PrefixKeys(@, clone_key)]>>
         \o PrefixKeys(Tail(fields), clone_key)

\* A variant of _prefix_keys that leaves the sub_fields as they are.
PrefixKeysShallow(fields, clone_key) ==
    IF clone_key = EmptyStr \/ fields = << >> THEN fields
    ELSE <<[Head(fields) EXCEPT !.key = Underscore(clone_key, @)]>>
         \o PrefixKeys(Tail(fields), clone_key)

\* _prefix_keys
PrefixKeys(fields, clone_key) ==
    IF clone_key = EmptyStr \/ fields = << >> THEN fields
    ELSE <<[Head(fields) EXCEPT
              !.key = Underscore(clone_key, @),
              !.sub_fields = PrefixKeys(@, clone_key)]>>
         \o PrefixKeys(Tail(fields), clone_key)

RECURSIVE ResolveClone(_, _, _)
RECURSIVE ResolveRefs(_, _, _)
RECURSIVE ResolveGroupRef(_, _, _)
RECURSIVE ResolveGroupFields(_, _, _)
RECURSIVE ResolveFieldRef(_, _, _)

\* A variant of the loop in which the references share one visited set: a
\* later reference sees the clones an earlier one visited.
ResolveRefsShared(refs, idx, visited) ==
    IF refs = << >> THEN Ok(<< >>)
    ELSE LET before == ResolveRefs(Front(refs), idx, visited) IN
         IF before.st # "ok" THEN before
         ELSE LET ref == Last(refs)
                  seen == UNION {CloneClosure(CloneTargetsOfRef(refs[i], idx), idx) :
                                   i \in 1..(Len(refs) - 1)}
                  r == IF ref \in DOMAIN idx.groups
                         THEN ResolveGroupRef(ref, idx, visited \cup seen)
                       ELSE IF ref \in DOMAIN idx.fields
                         THEN ResolveFieldRef(ref, idx, visited \cup seen)
                       ELSE Ok(<< >>)
              IN  IF r.st # "ok" THEN r ELSE Ok(before.fields \o r.fields)

\* A variant of the loop that ends at a reference the index does not know.
ResolveRefsStopsAtUnknown(refs, idx, visited) ==
    IF refs = << >> THEN Ok(<< >>)
    ELSE LET before == ResolveRefs(Front(refs), idx, visited)
             ref == Last(refs)
         IN  IF before.st # "ok" THEN before
             ELSE IF \E i \in 1..(Len(refs) - 1) :
                        refs[i] \notin DOMAIN idx.groups /\ refs[i] \notin DOMAIN idx.fields
               THEN before
             ELSE LET r == IF ref \in DOMAIN idx.groups
                             THEN ResolveGroupRef(ref, idx, visited)
                           ELSE IF ref \in DOMAIN idx.fields
                             THEN ResolveFieldRef(ref, idx, visited)
                           ELSE Ok(<< >>)
                  IN  IF r.st # "ok" THEN r ELSE Ok(before.fields \o r.fields)

\* The `for ref in refs` loop of resolve_clone: the list `resolved` after the
\* iterations over refs (the last iteration follows those before it).
ResolveRefs(refs, idx, visited) ==
    IF refs = << >> THEN Ok(<< >>)
    ELSE LET before == ResolveRefs(Front(refs), idx, visited) IN
         IF before.st # "ok" THEN before
         ELSE LET ref == Last(refs)
                  r == IF ref \in DOMAIN idx.groups
                         THEN ResolveGroupRef(ref, idx, visited)
                       ELSE IF ref \in DOMAIN idx.fields
                         THEN ResolveFieldRef(ref, idx, visited)
                       ELSE Ok(<< >>)
              IN  IF r.st # "ok" THEN r ELSE Ok(before.fields \o r.fields)

\* A variant of resolve_clone whose error names only the revisited key.
ResolveCloneShortChain(clone_field, idx, visited) ==
    LET field_key == clone_field.key IN
    IF field_key \in visited THEN CircularError({field_key}, field_key)
    ELSE LET r == ResolveRefs(clone_field.clone, idx, visited \cup {field_key})
         IN  IF r.st # "ok" THEN r ELSE Ok(PrefixKeys(r.fields, field_key))

\* resolve_clone
ResolveClone(clone_field, idx, visited) ==
    LET field_key == clone_field.key IN
    IF field_key \in visited THEN CircularError(visited, field_key)
    ELSE LET r == ResolveRefs(clone_field.clone, idx, visited \cup {field_key})
         IN  IF r.st # "ok" THEN r ELSE Ok(PrefixKeys(r.fields, field_key))

\* The `for field in group["fields"]` loop of _resolve_group_ref: the list
\* `resolved` after the iterations over fields.
ResolveGroupFields(fields, idx, visited) ==
    IF fields = << >> THEN Ok(<< >>)
    ELSE LET before == ResolveGroupFields(Front(fields), idx, visited) IN
         IF before.st # "ok" THEN before
         ELSE LET field == Last(fields)
                  r == IF field.type = "clone"
                         THEN ResolveClone(field, idx, visited)
                         ELSE Ok(<<field>>)
              IN  IF r.st # "ok" THEN r ELSE Ok(before.fields \o r.fields)

\* _resolve_group_ref
ResolveGroupRef(group_key, idx, visited) ==
    ResolveGroupFields(idx.groups[group_key].fields, idx, visited)

\* A variant of _resolve_field_ref that keeps a referenced clone as it is.
ResolveFieldRefKeepsClone(field_key, idx, visited) ==
    Ok(<<idx.fields[field_key]>>)

\* _resolve_field_ref
ResolveFieldRef(field_key, idx, visited) ==
    LET field == idx.fields[field_key] IN
    IF field.type = "clone" THEN ResolveClone(field, idx, visited)
    ELSE Ok(<<field>>)

(***************************************************************************)
(* The field-path compiler (acf/field_path_builder.py).  A PathMapping is  *)
(* a dict of entries [k |-> path, leaf, key, sub]: a leaf entry holds     *)
(* the field key, a repeater entry (leaf = FALSE) the nested PathMapping.  *)
(***************************************************************************)
UI_ONLY_TYPES == {"accordion", "tab", "message"}

LeafEntry(path, key) == [k |-> path, leaf |-> TRUE, key |-> key, sub |-> << >>]

RepeaterEntry(path, sub) == [k |-> path, leaf |-> FALSE, key |-> EmptyStr, sub |-> sub]

OkMap(m) == [st |-> "ok", map |-> m, chain |-> {}, at |-> EmptyStr]

\* An exception of the resolver passing through the compiler.
Raised(r) == [st |-> r.st, map |-> << >>, chain |-> r.chain, at |-> r.at]

RECURSIVE BuildFieldPaths(_, _, _, _, _)
RECURSIVE BuildLoop(_, _, _, _, _)

\* A variant of the iteration without the skip of UI-only and unnamed fields.
BuildFieldNoSkip(field, idx, prefix, visited, depth) ==
    LET field_type == field.type
        name == field.name
        path == DotJoin(prefix, name)
    IN  IF field_type = "clone" THEN
            LET expanded == ResolveClone(field, idx, visited)
            IN  IF expanded.st # "ok" THEN Raised(expanded)
                ELSE BuildFieldPaths(expanded.fields, idx, prefix, visited, depth + 1)
        ELSE IF field_type = "group" THEN
            BuildFieldPaths(field.sub_fields, idx, path, visited, depth + 1)
        ELSE IF field_type = "repeater" THEN
            LET repeater_paths ==
                    BuildFieldPaths(field.sub_fields, idx, EmptyStr, visited, depth + 1)
            IN  IF repeater_paths.st # "ok" THEN repeater_paths
                ELSE OkMap(<<RepeaterEntry(path \o <<"[", "]">>, repeater_paths.map)>>)
        ELSE OkMap(<<LeafEntry(path, field.key)>>)

\* A variant of the iteration that compiles a clone's fields under the
\* clone's own path, as it does a group's.
BuildFieldCloneSegment(field, idx, prefix, visited, depth) ==
    LET field_type == field.type
        name == field.name
        path == DotJoin(prefix, name)
    IN  IF field_type \in UI_ONLY_TYPES \/ name = EmptyStr THEN OkMap(<< >>)
        ELSE IF field_type = "clone" THEN
            LET expanded == ResolveClone(field, idx, visited)
            IN  IF expanded.st # "ok" THEN Raised(expanded)
                ELSE BuildFieldPaths(expanded.fields, idx, path, visited, depth + 1)
        ELSE IF field_type = "group" THEN
            BuildFieldPaths(field.sub_fields, idx, path, visited, depth + 1)
        ELSE IF field_type = "repeater" THEN
            LET repeater_paths ==
                    BuildFieldPaths(field.sub_fields, idx, EmptyStr, visited, depth + 1)
            IN  IF repeater_paths.st # "ok" THEN repeater_paths
                ELSE OkMap(<<RepeaterEntry(path \o <<"[", "]">>, repeater_paths.map)>>)
        ELSE OkMap(<<LeafEntry(path, field.key)>>)

\* A variant of the iteration that compiles a repeater's sub-fields under
\* the repeater's path instead of the empty prefix.
BuildFieldRepeaterPrefixed(field, idx, prefix, visited, depth) ==
    LET field_type == field.type
        name == field.name
        path == DotJoin(prefix, name)
    IN  IF field_type \in UI_ONLY_TYPES \/ name = EmptyStr THEN OkMap(<< >>)
        ELSE IF field_type = "clone" THEN
            LET expanded == ResolveClone(field, idx, visited)
            IN  IF expanded.st # "ok" THEN Raised(expanded)
                ELSE BuildFieldPaths(expanded.fields, idx, prefix, visited, depth + 1)
        ELSE IF field_type = "group" THEN
            BuildFieldPaths(field.sub_fields, idx, path, visited, depth + 1)
        ELSE IF field_type = "repeater" THEN
            LET repeater_paths ==
                    BuildFieldPaths(field.sub_fields, idx, path, visited, depth + 1)
            IN  IF repeater_paths.st # "ok" THEN repeater_paths
                ELSE OkMap(<<RepeaterEntry(path \o <<"[", "]">>, repeater_paths.map)>>)
        ELSE OkMap(<<LeafEntry(path, field.key)>>)

\* One iteration of the `for field in fields` loop of build_field_paths:
\* the entries the field adds to `result`.
BuildField(field, idx, prefix, visited, depth) ==
    LET field_type == field.type
        name == field.name
        path == DotJoin(prefix, name)
    IN  IF field_type \in UI_ONLY_TYPES \/ name = EmptyStr THEN OkMap(<< >>)
        ELSE IF field_type = "clone" THEN
            LET expanded == ResolveClone(field, idx, visited)
            IN  IF expanded.st # "ok" THEN Raised(expanded)
                ELSE BuildFieldPaths(expanded.fields, idx, prefix, visited, depth + 1)
        ELSE IF field_type = "group" THEN
            BuildFieldPaths(field.sub_fields, idx, path, visited, depth + 1)
        ELSE IF field_type = "repeater" THEN
            LET repeater_paths ==
                    BuildFieldPaths(field.sub_fields, idx, EmptyStr, visited, depth + 1)
            IN  IF repeater_paths.st # "ok" THEN repeater_paths
                ELSE OkMap(<<RepeaterEntry(path \o <<"[", "]">>, repeater_paths.map)>>)
        ELSE OkMap(<<LeafEntry(path, field.key)>>)

\* A variant of the loop in which an entry already in `result` is kept.
BuildLoopFirstWins(fields, idx, prefix, visited, depth) ==
    IF fields = << >> THEN OkMap(<< >>)
    ELSE LET before == BuildLoop(Front(fields), idx, prefix, visited, depth) IN
         IF before.st # "ok" THEN before
         ELSE LET r == BuildField(Last(fields), idx, prefix, visited, depth)
              IN  IF r.st # "ok" THEN r
                  ELSE OkMap(before.map
                             \o SelectSeq(r.map, LAMBDA e : ~HasKey(before.map, e.k)))

\* The loop of build_field_paths: the dict `result` after the iterations
\* over fields.
BuildLoop(fields, idx, prefix, visited, depth) ==
    IF fields = << >> THEN OkMap(<< >>)
    ELSE LET before == BuildLoop(Front(fields), idx, prefix, visited, depth) IN
         IF before.st # "ok" THEN before
         ELSE LET r == BuildField(Last(fields), idx, prefix, visited, depth)
              IN  IF r.st # "ok" THEN r ELSE OkMap(DictUpdate(before.map, r.map))

\* build_field_paths
BuildFieldPaths(fields, idx, prefix, visited, depth) ==
    IF depth > MaxDepth THEN Raised(RecursionError)
    ELSE BuildLoop(fields, idx, prefix, visited, depth)

(***************************************************************************)
(* The parser (acf/parser.py).                                             *)
(***************************************************************************)
RECURSIVE ResolveSubFields(_, _)
\* The `for sf in sub_fields` loop of _process_layout: the list
\* `all_resolved` after the iterations over sub_fields.
ResolveSubFields(sub_fields, idx) ==
    IF sub_fields = << >> THEN Ok(<< >>)
    ELSE LET before == ResolveSubFields(Front(sub_fields), idx) IN
         IF before.st # "ok" THEN before
         ELSE LET sf == Last(sub_fields)
                  r == IF sf.type = "clone" THEN ResolveClone(sf, idx, {})
                       ELSE Ok(<<sf>>)
              IN  IF r.st # "ok" THEN r ELSE Ok(before.fields \o r.fields)

\* _process_layout
ProcessLayout(layout, idx) ==
    IF layout.sub_fields = << >> THEN OkMap(<< >>)
    ELSE LET all_resolved == ResolveSubFields(layout.sub_fields, idx)
         IN  IF all_resolved.st # "ok" THEN Raised(all_resolved)
             ELSE BuildFieldPaths(all_resolved.fields, idx, EmptyStr, {}, 1)

(***************************************************************************)
(* Content values.  A value is a record [t, s, d, l]: a string (t = "s",   *)
(* s its tokens), a bool ("b", s its name), None ("n"), a dict ("d", d its *)
(* entries [k |-> key, v |-> value]) or a list ("l", l its items).         *)
(***************************************************************************)
Value(t, s, d, l) == [t |-> t, s |-> s, d |-> d, l |-> l]

Scalar(s) == Value("s", s, << >>, << >>)

Text(tok) == Scalar(Str(tok))

False == Value("b", Str("False"), << >>, << >>)

None == Value("n", << >>, << >>, << >>)

Map(d) == Value("d", << >>, d, << >>)

List(l) == Value("l", << >>, << >>, l)

Entry(k, v) == [k |-> k, v |-> v]

\* isinstance(value, dict)
IsDict(value) == value.t = "d"

\* isinstance(value, list)
IsList(value) == value.t = "l"

\* bool(value)
Truthy(value) ==
    CASE value.t = "n" -> FALSE
      [] value.t = "b" -> value.s = Str("True")
      [] value.t = "s" -> value.s # EmptyStr
      [] value.t = "d" -> value.d # << >>
      [] value.t = "l" -> value.l # << >>

(***************************************************************************)
(* Defaults (acf/defaults.py).                                             *)
(***************************************************************************)
COMMON_FIELD_DEFAULTS ==
    << Entry(<<"section", "_", "id">>, Scalar(EmptyStr)),
       Entry(<<"padding", "_", "override">>, Text("reduced-padding")),
       Entry(<<"section", "_", "width">>, Text("narrow")),
       Entry(<<"toc", "_", "exclude">>, False),
       Entry(<<"background", "_", "color">>, Scalar(EmptyStr)),
       Entry(<<"background", "_", "image">>, Scalar(EmptyStr)) >>

HEADING_DEFAULTS ==
    << Entry(Str("heading"),
             Map(<< Entry(Str("text"), Scalar(EmptyStr)),
                    Entry(Str("level"), Text("h2")),
                    Entry(Str("alignment"),
                          Map(<< Entry(Str("desktop"), Text("inherit")),
                                 Entry(Str("mobile"), Text("inherit")) >>)) >>)) >>

READ_MORE_DEFAULTS ==
    << Entry(<<"read", "_", "more", "_", "text">>, Scalar(EmptyStr)),
       Entry(<<"read", "_", "less", "_", "text">>, Scalar(EmptyStr)),
       Entry(<<"read", "_", "more", "_", "content">>, Scalar(EmptyStr)),
       Entry(<<"read", "_", "more", "_", "mobile", "_", "only">>, False) >>

RECURSIVE DeepCopyDict(_)
\* _deep_copy_dict
DeepCopyDict(d) ==
    IF d = << >> THEN << >>
    ELSE LET result == DeepCopyDict(Front(d))
             key == Last(d).k
             value == Last(d).v
         IN  IF IsDict(value)
             THEN DictSet(result, Entry(key, Map(DeepCopyDict(value.d))))
             ELSE DictSet(result, Entry(key, value))

\* get_defaults_for_layout
GetDefaultsForLayout(layout_fields) ==
    LET d1 == IF HasKey(layout_fields, <<"section", "_", "id">>)
              THEN DictUpdate(<< >>, COMMON_FIELD_DEFAULTS) ELSE << >>
        d2 == IF HasKey(layout_fields, <<"heading", ".", "text">>)
              THEN DictUpdate(d1, DeepCopyDict(HEADING_DEFAULTS)) ELSE d1
    IN  IF HasKey(layout_fields, <<"read", "_", "more", "_", "text">>)
        THEN DictUpdate(d2, READ_MORE_DEFAULTS) ELSE d2

RECURSIVE DeepMerge(_, _)
\* A variant of _deep_merge that recurses with its arguments swapped, so
\* that the base wins inside a nested map.
DeepMergeBaseWins(base, override) ==
    IF override = << >> THEN base
    ELSE LET result == DeepMerge(base, Front(override))
             key == Last(override).k
             value == Last(override).v
         IN  IF HasKey(result, key) /\ IsDict(Get(result, key).v) /\ IsDict(value)
             THEN DictSet(result, Entry(key, Map(DeepMerge(value.d, Get(result, key).v.d))))
             ELSE DictSet(result, Entry(key, value))

\* A variant of _deep_merge that never recurses: result.update(override).
DeepMergeShallow(base, override) == DictUpdate(base, override)

\* A variant of _deep_merge that keeps a map of the base when the override
\* holds a value that is not a map.
DeepMergeKeepsMap(base, override) ==
    IF override = << >> THEN base
    ELSE LET result == DeepMerge(base, Front(override))
             key == Last(override).k
             value == Last(override).v
         IN  IF HasKey(result, key) /\ IsDict(Get(result, key).v)
             THEN IF IsDict(value)
                  THEN DictSet(result, Entry(key, Map(DeepMerge(Get(result, key).v.d, value.d))))
                  ELSE result
             ELSE DictSet(result, Entry(key, value))

\* _deep_merge: result after the loop over override.items().
DeepMerge(base, override) ==
    IF override = << >> THEN base
    ELSE LET result == DeepMerge(base, Front(override))
             key == Last(override).k
             value == Last(override).v
         IN  IF HasKey(result, key) /\ IsDict(Get(result, key).v) /\ IsDict(value)
             THEN DictSet(result, Entry(key, Map(DeepMerge(Get(result, key).v.d, value.d))))
             ELSE DictSet(result, Entry(key, value))

\* apply_defaults
ApplyDefaults(section, layout_fields) ==
    DeepMerge(GetDefaultsForLayout(layout_fields), section)

(***************************************************************************)
(* FieldMapping (acf/mapping_loader.py), from its query contract in the    *)
(* spec: a mapping is [flexible_content_key, layouts], layouts a dict of   *)
(* entries [k |-> layout name, layout_key, fields |-> PathMapping].        *)
(***************************************************************************)
LayoutMapping(name, layout_key, fields) ==
    [k |-> name, layout_key |-> layout_key, fields |-> fields]

\* FieldMapping.has_layout
HasLayout(mapping, layout_name) ==
    layout_name.t = "s" /\ HasKey(mapping.layouts, layout_name.s)

\* FieldMapping.get_layout_fields: the empty map for an unknown layout.
GetLayoutFields(mapping, layout_name) ==
    IF HasLayout(mapping, layout_name)
    THEN Get(mapping.layouts, layout_name.s).fields ELSE << >>

(***************************************************************************)
(* The parser's entry point (acf/parser.py).                               *)
(***************************************************************************)
PAGE_SECTIONS_GROUP_KEY == <<"group", "_", "6104225bab52f">>

PAGE_SECTIONS_FIELD_KEY == <<"field", "_", "61042266f0b46">>

\* The outcome of the extraction: st = "ok" with the mapping set, or the
\* exception that ends it.
Extracted(layouts) ==
    [st |-> "ok",
     mapping |-> [flexible_content_key |-> PAGE_SECTIONS_FIELD_KEY, layouts |-> layouts]]

ExtractError(exception) ==
    [st |-> exception,
     mapping |-> [flexible_content_key |-> EmptyStr, layouts |-> << >>]]

NoField == [st |-> "ValueError", field |-> Field(EmptyStr, "", EmptyStr, << >>, << >>)]

RECURSIVE FindFlexibleContentField(_)
\* A variant of _find_flexible_content_field that returns the field with
\* the designated key whatever its type.
FindFieldOfAnyType(fields) ==
    IF fields = << >> THEN NoField
    ELSE IF Head(fields).key = PAGE_SECTIONS_FIELD_KEY
         THEN [st |-> "ok", field |-> Head(fields)]
         ELSE FindFlexibleContentField(Tail(fields))

\* _find_flexible_content_field, on the fields of the Page Sections group.
FindFlexibleContentField(fields) ==
    IF fields = << >> THEN NoField
    ELSE IF Head(fields).key = PAGE_SECTIONS_FIELD_KEY
         THEN IF Head(fields).type # "flexible_content"
              THEN [st |-> "ValueError", field |-> Head(fields)]
              ELSE [st |-> "ok", field |-> Head(fields)]
         ELSE FindFlexibleContentField(Tail(fields))

RECURSIVE ExtractLayouts(_, _)
\* The `for layout_key, layout in layouts_dict.items()` loop of
\* extract_page_sections_layouts: result_layouts after the iterations, or
\* the KeyError of layout["name"], which no handler catches.
ExtractLayouts(layouts, idx) ==
    IF layouts = << >> THEN Extracted(<< >>)
    ELSE LET before == ExtractLayouts(Front(layouts), idx)
             layout == Last(layouts)
         IN  IF before.st # "ok" THEN before
             ELSE IF ~layout.named THEN ExtractError("KeyError")
             ELSE LET field_paths == ProcessLayout(layout, idx) IN
                  IF field_paths.st # "ok" THEN before
                  ELSE Extracted(DictSet(before.mapping.layouts,
                           LayoutMapping(layout.name, layout.lkey, field_paths.map)))

\* extract_page_sections_layouts
ExtractPageSectionsLayouts(export_data) ==
    LET idx == ACFIndex(export_data) IN
    IF PAGE_SECTIONS_GROUP_KEY \notin DOMAIN idx.groups THEN ExtractError("ValueError")
    ELSE LET fc_field == FindFlexibleContentField(idx.groups[PAGE_SECTIONS_GROUP_KEY].fields)
         IN  IF fc_field.st # "ok" THEN ExtractError(fc_field.st)
             ELSE ExtractLayouts(fc_field.field.layouts, idx)

(***************************************************************************)
(* The transformer (acf/transformer.py).  A call returns an outcome:       *)
(* st = "ok" with the value, or st = "KeyError".                           *)
(***************************************************************************)
ACF_FC_LAYOUT == <<"acf", "_", "fc", "_", "layout">>

Done(out) == [st |-> "ok", out |-> out]

KeyError == [st |-> "KeyError", out |-> << >>]

RECURSIVE FlattenToDotPaths(_, _)
\* A variant of _flatten_to_dot_paths that forgets the prefix below the
\* first level: full_key = key.
FlattenDropsPrefix(data, prefix) ==
    IF data = << >> THEN << >>
    ELSE LET result == FlattenToDotPaths(Front(data), prefix)
             key == Last(data).k
             value == Last(data).v
         IN  IF IsDict(value)
             THEN DictUpdate(result, FlattenToDotPaths(value.d, key))
             ELSE DictSet(result, Entry(DotJoin(prefix, key), value))

\* _flatten_to_dot_paths: result after the loop over data.items().
FlattenToDotPaths(data, prefix) ==
    IF data = << >> THEN << >>
    ELSE LET result == FlattenToDotPaths(Front(data), prefix)
             key == Last(data).k
             value == Last(data).v
             full_key == DotJoin(prefix, key)
         IN  IF IsDict(value)
             THEN DictUpdate(result, FlattenToDotPaths(value.d, full_key))
             ELSE DictSet(result, Entry(full_key, value))

\* key in fields_mapping and isinstance(fields_mapping[key], str)
MapsToStr(fields_mapping, key) ==
    HasKey(fields_mapping, key) /\ Get(fields_mapping, key).leaf

\* key in fields_mapping and isinstance(fields_mapping[key], dict)
MapsToDict(fields_mapping, key) ==
    HasKey(fields_mapping, key) /\ ~Get(fields_mapping, key).leaf

\* A variant of the assignment that never looks the key up.
SetLiteral(result, key, value, fields_mapping) == DictSet(result, Entry(key, value))

\* result[fields_mapping[key]] = value if the key maps to a field key,
\* result[key] = value otherwise.
SetMapped(result, key, value, fields_mapping) ==
    IF MapsToStr(fields_mapping, key)
    THEN DictSet(result, Entry(Get(fields_mapping, key).key, value))
    ELSE DictSet(result, Entry(key, value))

RECURSIVE SetFlat(_, _, _)
\* The `for dot_path, val in flat.items()` loop of _convert_to_field_keys.
SetFlat(result, flat, fields_mapping) ==
    IF flat = << >> THEN result
    ELSE SetMapped(SetFlat(result, Front(flat), fields_mapping),
                   Last(flat).k, Last(flat).v, fields_mapping)

RECURSIVE ConvertToFieldKeys(_, _)
RECURSIVE ConvertItems(_, _)
\* The list comprehension over the items of a repeater value.
ConvertItems(items, sub_mapping) ==
    IF items = << >> THEN << >>
    ELSE LET item == Last(items) IN
         Append(ConvertItems(Front(items), sub_mapping),
                IF IsDict(item) THEN Map(ConvertToFieldKeys(item.d, sub_mapping))
                ELSE item)

\* _convert_to_field_keys: result after the loop over data.items().
ConvertToFieldKeys(data, fields_mapping) ==
    IF data = << >> THEN << >>
    ELSE LET result == ConvertToFieldKeys(Front(data), fields_mapping)
             key == Last(data).k
             value == Last(data).v
             repeater_key == key \o <<"[", "]">>
         IN  IF IsList(value)
             THEN IF MapsToDict(fields_mapping, repeater_key)
                  THEN DictSet(result,
                           Entry(key, List(ConvertItems(value.l,
                                     Get(fields_mapping, repeater_key).sub))))
                  ELSE SetMapped(result, key, value, fields_mapping)
             ELSE IF IsDict(value)
             THEN SetFlat(result, FlattenToDotPaths(value.d, key), fields_mapping)
             ELSE SetMapped(result, key, value, fields_mapping)

\* The dict comprehension {k: v for k, v in section.items() if k != ...}.
WithoutLayout(section) == SelectSeq(section, LAMBDA e : e.k # ACF_FC_LAYOUT)

\* transform_section
TransformSection(section, mapping) ==
    IF ~HasKey(section, ACF_FC_LAYOUT) THEN KeyError
    ELSE LET layout_name == Get(section, ACF_FC_LAYOUT).v
             layout_fields == GetLayoutFields(mapping, layout_name)
             merged == ApplyDefaults(WithoutLayout(section), layout_fields)
         IN  Done(DictUpdate(<<Entry(ACF_FC_LAYOUT, layout_name)>>,
                             ConvertToFieldKeys(merged, layout_fields)))

\* section.get("acf_fc_layout")
LayoutNameOf(section) ==
    IF HasKey(section, ACF_FC_LAYOUT) THEN Get(section, ACF_FC_LAYOUT).v ELSE None

RECURSIVE TransformedSections(_, _)
\* A variant of the loop of transform_to_acf without the has_layout test.
TransformedSectionsAnyLayout(sections, mapping) ==
    IF sections = << >> THEN Done(<< >>)
    ELSE LET before == TransformedSections(Front(sections), mapping)
             section == Last(sections)
         IN  IF before.st # "ok" THEN before
             ELSE IF ~Truthy(LayoutNameOf(section)) THEN before
             ELSE LET transformed == TransformSection(section, mapping) IN
                  IF transformed.st # "ok" THEN transformed
                  ELSE Done(Append(before.out, Map(transformed.out)))

\* The loop of transform_to_acf: transformed_sections after the iterations
\* over `sections`.
TransformedSections(sections, mapping) ==
    IF sections = << >> THEN Done(<< >>)
    ELSE LET before == TransformedSections(Front(sections), mapping)
             section == Last(sections)
         IN  IF before.st # "ok" THEN before
             ELSE IF ~Truthy(LayoutNameOf(section)) THEN before
             ELSE IF ~HasLayout(mapping, LayoutNameOf(section)) THEN before
             ELSE LET transformed == TransformSection(section, mapping) IN
                  IF transformed.st # "ok" THEN transformed
                  ELSE Done(Append(before.out, Map(transformed.out)))

\* transform_to_acf
TransformToAcf(sections, mapping) ==
    LET transformed_sections == TransformedSections(sections, mapping) IN
    IF transformed_sections.st # "ok" THEN transformed_sections
    ELSE Done(<<Entry(Str("acf"),
                      Map(<<Entry(mapping.flexible_content_key,
                                  List(transformed_sections.out))>>))>>)

(***************************************************************************)
(* Validation (acf/transformer.py).  A warning string is the record of     *)
(* the values its f-string formats: the kind of the message, the index of  *)
(* the section, the layout name and the path.                              *)
(***************************************************************************)
Warning(kind, i, layout, path) ==
    [kind |-> kind, index |-> i, layout |-> layout, path |-> path]

\* f"Section {i}: missing acf_fc_layout"
MissingLayoutWarning(i) == Warning("missing_layout", i, EmptyStr, EmptyStr)

\* f"Section {i}: unknown layout '{layout_name}'"
UnknownLayoutWarning(i, layout_name) ==
    Warning("unknown_layout", i, layout_name.s, EmptyStr)

\* f"Section {index} ({section['acf_fc_layout']}): unknown field '{path}'"
UnknownFieldWarning(i, section, path) ==
    Warning("unknown_field", i, Get(section, ACF_FC_LAYOUT).v.s, path)

\* key.endswith("[]")
EndsWithBrackets(key) ==
    Len(key) >= 2 /\ key[Len(key) - 1] = "[" /\ key[Len(key)] = "]"

\* ".".join(key.split(".")[:j]) for j in range(1, len(parts)): the part of
\* the key before each of its dots.
DotPrefixes(key) == {SubSeq(key, 1, i - 1) : i \in {j \in 1..Len(key) : key[j] = "."}}

RECURSIVE CollectKnownPaths(_, _)
\* A variant of _collect_known_paths whose repeater branch adds the
\* sub-field paths and forgets the bare repeater name.
CollectKnownPathsNoBareName(layout_fields, prefix) ==
    IF layout_fields = << >> THEN {}
    ELSE LET paths == CollectKnownPaths(Front(layout_fields), prefix)
             key == Last(layout_fields).k
             value == Last(layout_fields)
         IN  IF EndsWithBrackets(key) /\ ~value.leaf
             THEN LET full == DotJoin(prefix, SubSeq(key, 1, Len(key) - 2)) IN
                  paths \cup {full \o <<".">> \o sub_path :
                                 sub_path \in CollectKnownPaths(value.sub, EmptyStr)}
             ELSE IF "." \in Range(key)
             THEN paths \cup {DotJoin(prefix, key)}
                        \cup {DotJoin(prefix, partial) : partial \in DotPrefixes(key)}
             ELSE paths \cup {DotJoin(prefix, key)}

\* _collect_known_paths: paths after the loop over layout_fields.items().
CollectKnownPaths(layout_fields, prefix) ==
    IF layout_fields = << >> THEN {}
    ELSE LET paths == CollectKnownPaths(Front(layout_fields), prefix)
             key == Last(layout_fields).k
             value == Last(layout_fields)
         IN  IF EndsWithBrackets(key) /\ ~value.leaf
             THEN LET full == DotJoin(prefix, SubSeq(key, 1, Len(key) - 2)) IN
                  paths \cup {full}
                        \cup {full \o <<".">> \o sub_path :
                                 sub_path \in CollectKnownPaths(value.sub, EmptyStr)}
             ELSE IF "." \in Range(key)
             THEN paths \cup {DotJoin(prefix, key)}
                        \cup {DotJoin(prefix, partial) : partial \in DotPrefixes(key)}
             ELSE paths \cup {DotJoin(prefix, key)}

RECURSIVE CollectNestedPaths(_, _, _)
RECURSIVE CollectNestedItems(_, _)
\* The `for sub_key, sub_val in value.items()` loop of _collect_nested_paths.
CollectNestedItems(d, full) ==
    IF d = << >> THEN << >>
    ELSE CollectNestedItems(Front(d), full)
         \o CollectNestedPaths(Last(d).k, Last(d).v, full)

\* _collect_nested_paths
CollectNestedPaths(key, value, prefix) ==
    LET full == DotJoin(prefix, key) IN
    IF IsDict(value) THEN <<full>> \o CollectNestedItems(value.d, full)
    ELSE <<full>>

RECURSIVE UnknownPathWarnings(_, _, _, _)
\* The `for path in section_paths` loop of _validate_section_fields.
UnknownPathWarnings(i, section, section_paths, known_paths) ==
    IF section_paths = << >> THEN << >>
    ELSE UnknownPathWarnings(i, section, Front(section_paths), known_paths)
         \o (IF Last(section_paths) \notin known_paths
             THEN <<UnknownFieldWarning(i, section, Last(section_paths))>>
             ELSE << >>)

RECURSIVE SectionKeyWarnings(_, _, _, _)
\* The `for key in section` loop of _validate_section_fields over the
\* first entries `keys` of the section.
SectionKeyWarnings(i, section, keys, known_paths) ==
    IF keys = << >> THEN << >>
    ELSE LET key == Last(keys).k IN
         SectionKeyWarnings(i, section, Front(keys), known_paths)
         \o (IF key = ACF_FC_LAYOUT THEN << >>
             ELSE UnknownPathWarnings(i, section,
                      CollectNestedPaths(key, Last(keys).v, EmptyStr), known_paths))

\* _validate_section_fields: the warnings it appends.
ValidateSectionFields(i, section, layout_fields) ==
    SectionKeyWarnings(i, section, section, CollectKnownPaths(layout_fields, EmptyStr))

RECURSIVE ValidateSections(_, _)
\* A variant of validate_sections that checks the fields of a section
\* with an unknown layout too.
ValidateSectionsNoContinue(sections, mapping) ==
    IF sections = << >> THEN << >>
    ELSE LET warnings == ValidateSections(Front(sections), mapping)
             i == Len(sections) - 1
             section == Last(sections)
             layout_name == LayoutNameOf(section)
         IN  IF ~Truthy(layout_name) THEN Append(warnings, MissingLayoutWarning(i))
             ELSE IF ~HasLayout(mapping, layout_name)
             THEN Append(warnings, UnknownLayoutWarning(i, layout_name))
                  \o ValidateSectionFields(i, section,
                                           GetLayoutFields(mapping, layout_name))
             ELSE warnings \o ValidateSectionFields(i, section,
                                  GetLayoutFields(mapping, layout_name))

\* A variant of validate_sections without the has_layout test.
ValidateSectionsAnyLayout(sections, mapping) ==
    IF sections = << >> THEN << >>
    ELSE LET warnings == ValidateSections(Front(sections), mapping)
             i == Len(sections) - 1
             section == Last(sections)
             layout_name == LayoutNameOf(section)
         IN  IF ~Truthy(layout_name) THEN Append(warnings, MissingLayoutWarning(i))
             ELSE warnings \o ValidateSectionFields(i, section,
                                  GetLayoutFields(mapping, layout_name))

\* validate_sections: warnings after the loop over enumerate(sections).
ValidateSections(sections, mapping) ==
    IF sections = << >> THEN << >>
    ELSE LET warnings == ValidateSections(Front(sections), mapping)
             i == Len(sections) - 1
             section == Last(sections)
             layout_name == LayoutNameOf(section)
         IN  IF ~Truthy(layout_name) THEN Append(warnings, MissingLayoutWarning(i))
             ELSE IF ~HasLayout(mapping, layout_name)
             THEN Append(warnings, UnknownLayoutWarning(i, layout_name))
             ELSE warnings \o ValidateSectionFields(i, section,
                                  GetLayoutFields(mapping, layout_name))

(***************************************************************************)
(* The schema exports of the model.  Three page-section layouts' worth of  *)
(* structure: the layout clone cA, the clones cB and cE of group g1 (cE    *)
(* references cC) and the clone cC of group g2, which sits among g2's      *)
(* fields ("top"), inside the group field h ("group") or inside the        *)
(* repeater r ("repeater").  The reference lists of cA, cB and cC are the  *)
(* inputs.                                                                 *)
(***************************************************************************)
G1 == Str("g1")

G2 == Str("g2")

Placements == {"top", "group", "repeater"}

RefsOfA == SeqsUpTo(MaxRefs, {G1, G2, Str("cB"), Str("zz")})

RefsOfB ==
    {<< >>, <<Str("h"), Str("t2")>>} \cup {<<x>> : x \in {G2, Str("cA"), Str("cC"), Str("t")}}

RefsOfC == {<< >>} \cup {<<x>> : x \in {G1, G2, Str("cB"), Str("t")}}

CloneC(refsC) == CloneField("cC", "cc", refsC)

HeadingGroup(refsC, place) ==
    Field(Str("h"), "group", Str("heading"),
          <<LeafField("t2", Str("title")),
            Field(Str("u3"), "message", Str("note"), << >>, << >>)>>
          \o (IF place = "group" THEN <<CloneC(refsC)>> ELSE << >>),
          << >>)

RowsRepeater(refsC, place) ==
    Field(Str("r"), "repeater", Str("rows"),
          <<LeafField("q", Str("question")),
            Field(Str("u2"), "accordion", Str("fold"), << >>, << >>),
            LeafField("e2", EmptyStr)>>
          \o (IF place = "repeater" THEN <<CloneC(refsC)>> ELSE << >>),
          << >>)

SchemaExport(refsA, refsB, refsC, place) ==
    << Group(G1, <<CloneField("cB", "cb", refsB), LeafField("t", Str("text")),
                    CloneField("cE", "ce", <<Str("cC")>>)>>),
       Group(G2, <<HeadingGroup(refsC, place)>>
                 \o (IF place = "top" THEN <<CloneC(refsC)>> ELSE << >>)
                 \o <<Field(Str("u"), "tab", Str("tab1"), << >>, << >>),
                      LeafField("e", EmptyStr),
                      RowsRepeater(refsC, place)>>),
       Group(PAGE_SECTIONS_GROUP_KEY,
             <<FlexField(PAGE_SECTIONS_FIELD_KEY, "page_sections",
                         <<Layout("l1", "L1", <<CloneField("cA", "ca", refsA)>>),
                           Layout("l2", "L2", <<CloneField("cD", "cd", <<G2>>)>>)>>)>>) >>

Exports ==
    {SchemaExport(a, b, c, p) : a \in RefsOfA, b \in RefsOfB, c \in RefsOfC,
                                p \in Placements}

(***************************************************************************)
(* Effects on the shared objects.  The index holds the field dicts of the  *)
(* export and hands them out by reference; a mapping set hands out its     *)
(* PathMappings by reference.  A call changes one of them only by writing  *)
(* into a dict it was handed.                                              *)
(***************************************************************************)
\* A variant of the copy in which _prefix_keys writes into the dict it is
\* given (new_field = field).
PrefixedInPlace(field, clone_key) ==
    [field EXCEPT !.key = Underscore(clone_key, @),
                  !.sub_fields = PrefixKeys(@, clone_key)]

\* What a field dict given to _prefix_keys holds after the call: the
\* prefixed key and sub_fields are written into new_field = dict(field).
AfterPrefixKeys(field, clone_key) == field

RECURSIVE NestedClones(_)
\* The keys of the clone fields of a field list, at any depth.
NestedClones(fields) ==
    IF fields = << >> THEN {}
    ELSE (IF Head(fields).type = "clone" THEN {Head(fields).key} ELSE {})
         \cup NestedClones(Head(fields).sub_fields)
         \cup NestedClones(Tail(fields))

RECURSIVE ResolvedClones(_, _)
\* The clones that resolve_clone is called on when the clones of S are
\* resolved and their fields compiled: those their references lead to and
\* those nested in the referenced fields.
ResolvedClones(S, idx) ==
    LET S2 == S \cup UNION {CloneTargets(k, idx)
                              \cup UNION {NestedClones(f.sub_fields) : f \in DirectFields(k, idx)}
                            : k \in S}
    IN  IF S2 = S THEN S ELSE ResolvedClones(S2, idx)

\* The index after resolve_clone has run on the clones of S: the indexed
\* dicts that a reference delivered have been through _prefix_keys.
IndexAfterResolving(S, idx) ==
    [groups |-> idx.groups,
     fields |-> [k \in DOMAIN idx.fields |->
                   LET by == {c \in S : idx.fields[k] \in DirectFields(c, idx)}
                   IN  IF by = {} THEN idx.fields[k]
                       ELSE AfterPrefixKeys(idx.fields[k], CHOOSE c \in by : TRUE)]]

\* A variant in which _deep_merge writes into the dict it is given
\* (result = base).
WritesReachBase(base, written) == written

\* What a dict holds after the loop of _deep_merge has written `written`
\* into result: result is base.copy(), a dict of its own.
AfterCopyWrites(base, written) == base

RECURSIVE BaseAfterMerge(_, _)
\* What the dict given as base holds after _deep_merge(base, override): the
\* nested dicts of base are handed to the recursive calls as they are
\* (the copy is shallow), the writes of the loop go to result.
BaseAfterMerge(base, override) ==
    LET nested == [i \in DOMAIN base |->
            IF /\ HasKey(override, base[i].k)
               /\ IsDict(base[i].v) /\ IsDict(Get(override, base[i].k).v)
            THEN Entry(base[i].k, Map(BaseAfterMerge(base[i].v.d, Get(override, base[i].k).v.d)))
            ELSE base[i]]
    IN  AfterCopyWrites(nested, DeepMerge(nested, override))

\* What the dict given as override holds after _deep_merge(base, override):
\* the loop reads its items and stores its values, it assigns nothing to it.
OverrideAfterMerge(base, override) == override

\* A variant in which a call writes its entries into the PathMapping it is
\* given (result = fields_mapping).
WrittenInto(layout_fields, written) == DictUpdate(layout_fields, written)

\* What a PathMapping given to apply_defaults, _convert_to_field_keys or
\* _validate_section_fields holds after the call: the entries are written
\* into the dicts and sets the call creates (defaults, result, paths).
AfterWrites(layout_fields, written) == layout_fields

\* The mapping set after a call that handles the sections of a list.
MappingAfterSections(sections, mapping) ==
    [flexible_content_key |-> mapping.flexible_content_key,
     layouts |-> [i \in DOMAIN mapping.layouts |->
        LET entry == mapping.layouts[i]
            used == {j \in DOMAIN sections :
                        /\ HasKey(sections[j], ACF_FC_LAYOUT)
                        /\ LayoutNameOf(sections[j]).t = "s"
                        /\ LayoutNameOf(sections[j]).s = entry.k}
        IN  IF used = {} THEN entry
            ELSE LayoutMapping(entry.k, entry.layout_key,
                     AfterWrites(entry.fields,
                                 WithoutLayout(sections[CHOOSE j \in used : TRUE])))]]

(***************************************************************************)
(* The state machine.  export and index are built once; call records the   *)
(* last operation, its argument and its outcome.                           *)
(***************************************************************************)
NoCall == [op |-> "none"]

Init ==
    /\ export \in Exports
    /\ index = ACFIndex(export)
    /\ call = NoCall

CloneFieldsOf(idx) == {idx.fields[k] : k \in {x \in DOMAIN idx.fields : idx.fields[x].type = "clone"}}

\* resolve_clone(clone_field, index) on a clone field of the schema.  The
\* ValueError's message joins the visited frozenset in its iteration order,
\* which is any order, and ends with the revisited key.
ResolveCloneCall ==
    /\ call = NoCall
    /\ \E c \in CloneFieldsOf(index) :
      LET res == ResolveClone(c, index, {}) IN
      \E order \in Orders(res.chain) :
        /\ call' = [op |-> "resolve_clone", clone |-> c, res |-> res,
                    msg |-> IF res.st = "circular" THEN order \o <<res.at>> ELSE << >>]
        /\ index' = IndexAfterResolving(CloneClosure({c.key}, index), index)
        /\ UNCHANGED export

FieldLists(exp) == {exp[i].fields : i \in 1..Len(exp)}

\* A field list with its clone fields left without a name.
WithUnnamedClones(fields) ==
    [i \in DOMAIN fields |->
        IF fields[i].type = "clone" THEN [fields[i] EXCEPT !.name = EmptyStr] ELSE fields[i]]

\* build_field_paths(fields, index, prefix) on a group's field list, as it
\* is or with its clones unnamed.
BuildFieldPathsCall ==
    /\ call = NoCall
    /\ \E fields \in FieldLists(export) \cup {WithUnnamedClones(l) : l \in FieldLists(export)},
          prefix \in {EmptyStr, Str("p")} :
        /\ call' = [op |-> "build_field_paths", fields |-> fields, prefix |-> prefix,
                    res |-> BuildFieldPaths(fields, index, prefix, {}, 1)]
        /\ index' = IndexAfterResolving(ResolvedClones(NestedClones(fields), index), index)
        /\ UNCHANGED export

LayoutsOf(idx) ==
    IF PAGE_SECTIONS_FIELD_KEY \in DOMAIN idx.fields
    THEN Range(idx.fields[PAGE_SECTIONS_FIELD_KEY].layouts) ELSE {}

\* _process_layout(layout, index) on a layout of the flexible-content field.
ProcessLayoutCall ==
    /\ call = NoCall
    /\ \E layout \in LayoutsOf(index) :
        /\ call' = [op |-> "process_layout", layout |-> layout,
                    res |-> ProcessLayout(layout, index)]
        /\ index' = IndexAfterResolving(
                         ResolvedClones(NestedClones(layout.sub_fields), index), index)
        /\ UNCHANGED export

\* The caller takes the outcome; the next call can start.
Return ==
    /\ call # NoCall
    /\ call' = NoCall
    /\ UNCHANGED <<export, index>>

Next ==
    \/ Return
    \/ ResolveCloneCall
    \/ BuildFieldPathsCall
    \/ ProcessLayoutCall

Spec == Init /\ [][Next]_vars

(***************************************************************************)
(* The content side.  The mappings, PathMappings and sections of the       *)
(* model, and a second state machine whose calls are apply_defaults,       *)
(* transform_section and transform_to_acf on them.                         *)
(***************************************************************************)
FieldKey(tok) == <<"field", "_", tok>>

SectionIdPath == <<"section", "_", "id">>

HeadingTextPath == <<"heading", ".", "text">>

ContentName == Str("content")

HeroFields ==
    << LeafEntry(SectionIdPath, FieldKey("sid")),
       LeafEntry(HeadingTextPath, FieldKey("ht")),
       LeafEntry(<<"heading", ".", "level">>, FieldKey("hl")),
       LeafEntry(<<"heading", ".", "alignment", ".", "desktop">>, FieldKey("had")),
       LeafEntry(<<"heading", ".", "alignment", ".", "mobile">>, FieldKey("ham")),
       LeafEntry(ContentName, FieldKey("content")),
       RepeaterEntry(<<"rows", "[", "]">>,
                     <<LeafEntry(Str("question"), FieldKey("q"))>>) >>

MoreFields ==
    << LeafEntry(<<"read", "_", "more", "_", "text">>, FieldKey("rmt")),
       LeafEntry(ContentName, FieldKey("body")) >>

PartialFields ==
    << LeafEntry(SectionIdPath, FieldKey("sid2")),
       LeafEntry(HeadingTextPath, FieldKey("ht2")),
       LeafEntry(<<"cta", ".", "label">>, FieldKey("cta")),
       RepeaterEntry(<<"faq", ".", "items", "[", "]">>,
                     <<LeafEntry(Str("question"), FieldKey("fq"))>>) >>

SiteMapping ==
    [flexible_content_key |-> PAGE_SECTIONS_FIELD_KEY,
     layouts |-> << LayoutMapping(Str("hero"), Str("l1"), HeroFields),
                    LayoutMapping(Str("more"), Str("l2"), MoreFields),
                    LayoutMapping(Str("partial"), Str("l3"), PartialFields) >>]

SmallMapping ==
    [flexible_content_key |-> FieldKey("flex"),
     layouts |-> << LayoutMapping(Str("more"), Str("l2"), MoreFields) >>]

Mappings == {SiteMapping, SmallMapping}

PathMappings ==
    {<< >>} \cup UNION {{m.layouts[i].fields : i \in 1..Len(m.layouts)} : m \in Mappings}

\* The fields a user section is made of: known and unknown names, partial
\* and full heading maps, a scalar in place of the heading map, the flat
\* name 'heading.text', a repeater value, a map with an unknown leaf and a
\* list, a name that is itself a field key, and a repeater value inside a
\* group.
EntryPool ==
    { Entry(ContentName, Text("x")),
      Entry(SectionIdPath, Text("top")),
      Entry(Str("heading"), Map(<<Entry(Str("text"), Text("W"))>>)),
      Entry(Str("heading"),
            Map(<< Entry(Str("level"), Text("h3")),
                   Entry(Str("alignment"),
                         Map(<<Entry(Str("desktop"), Text("left"))>>)) >>)),
      Entry(Str("heading"), Text("flat")),
      Entry(HeadingTextPath, Text("W2")),
      Entry(Str("rows"),
            List(<< Map(<< Entry(Str("question"), Text("q1")),
                           Entry(Str("extra"), Text("e")) >>),
                    Text("raw") >>)),
      Entry(Str("cta"),
            Map(<< Entry(Str("label"), Text("go")),
                   Entry(Str("tags"), List(<<Text("a")>>)) >>)),
      Entry(FieldKey("content"), Text("lit")),
      Entry(Str("note"), Text("n")),
      Entry(<<"padding", "_", "override">>, Map(<<Entry(Str("top"), Text("0"))>>)),
      Entry(Str("faq"),
            Map(<<Entry(Str("items"),
                        List(<< Map(<< Entry(Str("question"), Text("q2")),
                                       Entry(Str("extra"), Text("e")) >>) >>))>>)) }

DistinctKeys(d) == \A i, j \in 1..Len(d) : d[i].k = d[j].k => i = j

UserSections == {s \in SeqsUpTo(MaxKeys, EntryPool) : DistinctKeys(s)}

\* The layout identifiers a section can carry: known to one or both
\* mappings, unknown, empty.
LayoutNames == {Text("hero"), Text("more"), Text("partial"), Text("nope"), Scalar(EmptyStr)}

\* A user section under a layout identifier, or without one.
Sections(users) ==
    users \cup {<<Entry(ACF_FC_LAYOUT, n)>> \o s : n \in LayoutNames, s \in users}

\* The sections the lists given to transform_to_acf are made of.
ListedSections ==
    Sections({<<Entry(ContentName, Text("x"))>>})
    \cup {<< Entry(ACF_FC_LAYOUT, Text("hero")),
              Entry(Str("heading"), Map(<<Entry(Str("text"), Text("W"))>>)) >>}

\* The content side reads the mapping it is given and nothing of the
\* schema: one export stands for all.
InitTransform ==
    /\ export = SchemaExport(<<G1>>, << >>, << >>, "top")
    /\ index = ACFIndex(export)
    /\ call = NoCall

\* apply_defaults(section, layout_fields)
ApplyDefaultsCall ==
    /\ call = NoCall
    /\ \E section \in UserSections, layout_fields \in PathMappings :
        /\ call' = [op |-> "apply_defaults", section |-> section,
                    layout_fields |-> layout_fields,
                    res |-> ApplyDefaults(section, layout_fields),
                    after |-> AfterWrites(layout_fields, section),
                    section_after |->
                        OverrideAfterMerge(GetDefaultsForLayout(layout_fields), section)]
        /\ UNCHANGED <<export, index>>

\* The trees _deep_merge is given as base: the defaults of each layout and
\* the user sections of one entry.
MergeBases ==
    {GetDefaultsForLayout(m) : m \in PathMappings} \cup {s \in UserSections : Len(s) <= 1}

\* _deep_merge(base, override)
DeepMergeCall ==
    /\ call = NoCall
    /\ \E base \in MergeBases, override \in UserSections :
        /\ call' = [op |-> "_deep_merge", base |-> base, override |-> override,
                    res |-> DeepMerge(base, override),
                    base_after |-> BaseAfterMerge(base, override),
                    override_after |-> OverrideAfterMerge(base, override)]
        /\ UNCHANGED <<export, index>>

\* transform_section(section, mapping)
TransformSectionCall ==
    /\ call = NoCall
    /\ \E section \in Sections(UserSections), mapping \in Mappings :
        /\ call' = [op |-> "transform_section", section |-> section,
                    mapping |-> mapping,
                    res |-> TransformSection(section, mapping),
                    after |-> MappingAfterSections(<<section>>, mapping)]
        /\ UNCHANGED <<export, index>>

\* transform_to_acf(sections, mapping)
TransformToAcfCall ==
    /\ call = NoCall
    /\ \E sections \in SeqsUpTo(MaxSections, ListedSections), mapping \in Mappings :
        /\ call' = [op |-> "transform_to_acf", sections |-> sections,
                    mapping |-> mapping,
                    res |-> TransformToAcf(sections, mapping),
                    after |-> MappingAfterSections(sections, mapping)]
        /\ UNCHANGED <<export, index>>

\* validate_sections(sections, mapping) on one section or on a list.
ValidateSectionsCall ==
    /\ call = NoCall
    /\ \E sections \in {<<s>> : s \in Sections(UserSections)}
                      \cup SeqsUpTo(MaxSections, ListedSections),
          mapping \in Mappings :
        /\ call' = [op |-> "validate_sections", sections |-> sections,
                    mapping |-> mapping,
                    res |-> Done(ValidateSections(sections, mapping)),
                    after |-> MappingAfterSections(sections, mapping)]
        /\ UNCHANGED <<export, index>>

NextTransform ==
    \/ Return
    \/ ApplyDefaultsCall
    \/ DeepMergeCall
    \/ TransformSectionCall
    \/ TransformToAcfCall
    \/ ValidateSectionsCall

SpecTransform == InitTransform /\ [][NextTransform]_vars

(***************************************************************************)
(* Whole-export compilation.  The exports of SpecParse are those of Spec   *)
(* with the Page Sections group in each of its shapes: well formed, absent *)
(* (the field sits in another group), holding the field only inside a      *)
(* group field, holding it under another key, or holding a field of        *)
(* another type under the designated key; a well-formed group may hold a   *)
(* layout entry without a name before or after the layouts L1 and L2.      *)
(***************************************************************************)
Shapes == {"ok", "no_group", "nested_field", "other_key", "wrong_type"}

BadLayouts == {"none", "first", "last"}

PageSectionsLayouts(refsA, bad) ==
    (IF bad = "first" THEN <<UnnamedLayout("l3", <<LeafField("n", Str("note"))>>)>> ELSE << >>)
    \o <<Layout("l1", "L1", <<CloneField("cA", "ca", refsA)>>),
         Layout("l2", "L2", <<CloneField("cD", "cd", <<G2>>)>>)>>
    \o (IF bad = "last" THEN <<UnnamedLayout("l3", <<LeafField("n", Str("note"))>>)>> ELSE << >>)

PageSectionsGroup(shape, layouts) ==
    LET fc == FlexField(PAGE_SECTIONS_FIELD_KEY, "page_sections", layouts)
        intro == LeafField("i", Str("intro"))
    IN  CASE shape = "ok" -> Group(PAGE_SECTIONS_GROUP_KEY, <<intro, fc>>)
          [] shape = "no_group" -> Group(Str("g3"), <<intro, fc>>)
          [] shape = "nested_field" ->
                 Group(PAGE_SECTIONS_GROUP_KEY,
                       <<intro, Field(Str("w"), "group", Str("wrap"), <<fc>>, << >>)>>)
          [] shape = "other_key" ->
                 Group(PAGE_SECTIONS_GROUP_KEY,
                       <<intro, FlexField(Str("fx"), "page_sections", layouts)>>)
          [] shape = "wrong_type" ->
                 Group(PAGE_SECTIONS_GROUP_KEY,
                       <<intro, [fc EXCEPT !.type = "repeater"]>>)

ParseExport(refsA, refsB, refsC, place, shape, bad) ==
    SubSeq(SchemaExport(refsA, refsB, refsC, place), 1, 2)
    \o <<PageSectionsGroup(shape, PageSectionsLayouts(refsA, bad))>>

RefsOfLayoutClone == {<<G1>>, <<G2>>, <<G1, G2>>, <<Str("cB")>>, <<Str("zz"), G2>>}

ParseExports ==
    {ParseExport(a, b, c, p, "ok", bad) :
         a \in RefsOfLayoutClone, b \in RefsOfB, c \in RefsOfC, p \in Placements,
         bad \in BadLayouts}
    \cup {ParseExport(a, b, c, "top", shape, "none") :
         a \in RefsOfLayoutClone, b \in RefsOfB, c \in RefsOfC, shape \in Shapes \ {"ok"}}

InitParse ==
    /\ export \in ParseExports
    /\ index = ACFIndex(export)
    /\ call = NoCall

ExtractCall ==
    /\ call = NoCall
    /\ call' = [op |-> "extract_page_sections_layouts",
                res |-> ExtractPageSectionsLayouts(export)]
    /\ UNCHANGED <<export, index>>

NextParse ==
    \/ Return
    \/ ExtractCall

SpecParse == InitParse /\ [][NextParse]_vars

(***************************************************************************)
(* Concurrent compilation.  One task per layout runs _process_layout over  *)
(* the shared index; the tasks' steps interleave.  A task holds what the   *)
(* call holds in its locals: the sub_fields still to resolve, all_resolved *)
(* and the stack of resolve_clone frames [key, visited, todo, resolved],   *)
(* todo the fields its references still have to deliver.  A step enters a  *)
(* resolve_clone call, handles one field of a reference, returns from a    *)
(* call, or compiles the resolved list; the index is only read.            *)
(***************************************************************************)
Frame(key, visited, todo) ==
    [key |-> key, visited |-> visited, todo |-> todo, resolved |-> << >>]

Task(layout) ==
    [layout |-> layout, pc |-> "resolve", subs |-> layout.sub_fields,
     all_resolved |-> << >>, stack |-> << >>, res |-> OkMap(<< >>)]

RECURSIVE RefFields(_, _)
\* The fields the `for ref in refs` loop of resolve_clone handles, in order:
\* the fields of a referenced group, a referenced field, nothing for an
\* unknown reference.
RefFields(refs, idx) ==
    IF refs = << >> THEN << >>
    ELSE LET ref == Head(refs) IN
         (IF ref \in DOMAIN idx.groups THEN idx.groups[ref].fields
          ELSE IF ref \in DOMAIN idx.fields THEN <<idx.fields[ref]>>
          ELSE << >>)
         \o RefFields(Tail(refs), idx)

\* A variant in which the tasks share one visited set.
VisitedShared(tasks, p) ==
    UNION {f.visited : f \in UNION {Range(tasks[q].stack) : q \in DOMAIN tasks}}

\* The visited set task p passes to the resolve_clone call it enters: that
\* of its innermost frame, the empty set from _process_layout.
Visited(tasks, p) ==
    IF tasks[p].stack = << >> THEN {} ELSE Last(tasks[p].stack).visited

\* Task p after it enters resolve_clone(field, index, visited).
EnterClone(tasks, p, field, idx) ==
    LET visited == Visited(tasks, p) IN
    IF field.key \in visited
    THEN [tasks[p] EXCEPT !.pc = "done", !.stack = << >>,
                          !.res = Raised(CircularError(visited, field.key))]
    ELSE [tasks[p] EXCEPT !.stack = Append(@, Frame(field.key, visited \cup {field.key},
                                                    RefFields(field.clone, idx)))]

\* Task p after the result of a returning call is appended to the list of
\* its caller: the frame below, or _process_layout.
Deliver(task, fields) ==
    LET n == Len(task.stack) IN
    IF n = 0
    THEN [task EXCEPT !.all_resolved = @ \o fields, !.subs = Tail(@)]
    ELSE [task EXCEPT !.stack[n].resolved = @ \o fields, !.stack[n].todo = Tail(@)]

ConcurrentExports ==
    {SchemaExport(a, b, c, "top") :
         a \in RefsOfLayoutClone, b \in RefsOfB, c \in RefsOfC}

InitConcurrent ==
    /\ export \in ConcurrentExports
    /\ index = ACFIndex(export)
    /\ call = [op |-> "compile_layouts",
               tasks |-> LET layouts == index.fields[PAGE_SECTIONS_FIELD_KEY].layouts
                         IN  [p \in DOMAIN layouts |-> Task(layouts[p])]]

Running(p) == p \in DOMAIN call.tasks /\ call.tasks[p].pc = "resolve"

\* The `for sf in sub_fields` loop of _process_layout takes its next item.
StartSubField(p) ==
    /\ Running(p)
    /\ call.tasks[p].stack = << >>
    /\ call.tasks[p].subs # << >>
    /\ LET sf == Head(call.tasks[p].subs) IN
       call' = [call EXCEPT !.tasks[p] =
                   IF sf.type = "clone" THEN EnterClone(call.tasks, p, sf, index)
                   ELSE Deliver(call.tasks[p], <<sf>>)]
    /\ UNCHANGED <<export, index>>

\* The innermost resolve_clone call handles the next field of a reference.
StepField(p) ==
    /\ Running(p)
    /\ call.tasks[p].stack # << >>
    /\ Last(call.tasks[p].stack).todo # << >>
    /\ LET field == Head(Last(call.tasks[p].stack).todo) IN
       call' = [call EXCEPT !.tasks[p] =
                   IF field.type = "clone" THEN EnterClone(call.tasks, p, field, index)
                   ELSE Deliver(call.tasks[p], <<field>>)]
    /\ UNCHANGED <<export, index>>

\* The innermost resolve_clone call returns _prefix_keys(resolved, field_key).
ReturnClone(p) ==
    /\ Running(p)
    /\ call.tasks[p].stack # << >>
    /\ Last(call.tasks[p].stack).todo = << >>
    /\ LET frame == Last(call.tasks[p].stack) IN
       call' = [call EXCEPT !.tasks[p] =
                   Deliver([call.tasks[p] EXCEPT !.stack = Front(@)],
                           PrefixKeys(frame.resolved, frame.key))]
    /\ UNCHANGED <<export, index>>

\* _process_layout ends with build_field_paths(all_resolved, index).
Compile(p) ==
    /\ Running(p)
    /\ call.tasks[p].stack = << >>
    /\ call.tasks[p].subs = << >>
    /\ call' = [call EXCEPT !.tasks[p].pc = "done",
                            !.tasks[p].res =
                                IF call.tasks[p].layout.sub_fields = << >> THEN OkMap(<< >>)
                                ELSE BuildFieldPaths(call.tasks[p].all_resolved, index,
                                                     EmptyStr, {}, 1)]
    /\ UNCHANGED <<export, index>>

NextConcurrent ==
    \/ \E p \in DOMAIN call.tasks : StartSubField(p)
    \/ \E p \in DOMAIN call.tasks : StepField(p)
    \/ \E p \in DOMAIN call.tasks : ReturnClone(p)
    \/ \E p \in DOMAIN call.tasks : Compile(p)

SpecConcurrent == InitConcurrent /\ [][NextConcurrent]_vars

(***************************************************************************)
(* Every call on one index: the calls of the schema side and those of the  *)
(* content side, in any sequence.                                          *)
(***************************************************************************)
FrameExports ==
    {SchemaExport(<<G1, G2>>, <<Str("cC")>>, <<Str("t")>>, p) : p \in {"top", "group"}}

InitFrame ==
    /\ export \in FrameExports
    /\ index = ACFIndex(export)
    /\ call = NoCall

NextFrame ==
    \/ Return
    \/ ResolveCloneCall
    \/ BuildFieldPathsCall
    \/ ProcessLayoutCall
    \/ ApplyDefaultsCall
    \/ TransformSectionCall
    \/ TransformToAcfCall
    \/ ValidateSectionsCall

SpecFrame == InitFrame /\ [][NextFrame]_vars

(***************************************************************************)
(* Building the index.  The exports of SpecIndex hold what the index has   *)
(* to cope with: groups that share a key, groups without a key, fields     *)
(* that share a key at different depths, fields without a key, fields      *)
(* under sub_fields and under the layouts of a flexible-content field.     *)
(***************************************************************************)
KeylessField(name, subs) == Field(EmptyStr, "group", Str(name), subs, << >>)

GroupField(key, subs) == Field(Str(key), "group", Str(key), subs, << >>)

IndexGroups ==
    LET a == LeafField("a", Str("first"))
        a2 == LeafField("a", Str("second"))
        b == LeafField("b", Str("b"))
        c == LeafField("c", Str("c"))
        h == GroupField("h", <<a2, KeylessField("n", << >>)>>)
        fx == FlexField(Str("fx"), "fx",
                        <<Layout("l1", "one", <<b, GroupField("h", <<b>>)>>),
                          Layout("l2", "two", <<a2>>)>>)
    IN  { Group(G1, <<a>>),
          Group(G1, <<h>>),
          Group(G2, <<fx>>),
          Group(G2, <<a2, GroupField("k", <<fx>>), a>>),
          Group(EmptyStr, <<c>>),
          Group(EmptyStr, <<a2>>),
          Group(Str("g3"), <<KeylessField("n", <<a, b>>)>>),
          Group(Str("g3"), << >>) }

IndexExports == SeqsUpTo(MaxGroups, IndexGroups)

EmptyIndex == [groups |-> << >>, fields |-> << >>]

InitIndex ==
    /\ export \in IndexExports
    /\ index = EmptyIndex
    /\ call = NoCall

\* ACFIndex(export_data)
BuildIndexCall ==
    /\ call = NoCall
    /\ index' = ACFIndex(export)
    /\ call' = [op |-> "ACFIndex"]
    /\ UNCHANGED export

NextIndex == BuildIndexCall

SpecIndex == InitIndex /\ [][NextIndex]_vars

(***************************************************************************)
(* The default tables as objects.  The heap is a sequence of dict objects, *)
(* an object's address its index; an entry of an object holds a value that *)
(* is no dict, or the address of a dict.  The calls of acf/defaults.py and *)
(* transform_section are followed object by object, and the caller may     *)
(* write into every dict it can reach from the tree a call returned.       *)
(***************************************************************************)
Ref(a) == [ref |-> TRUE, a |-> a, v |-> None]

Imm(v) == [ref |-> FALSE, a |-> 0, v |-> v]

RECURSIVE AllocEntries(_, _)
\* The dict literal `tree` built on the heap: a new object for every map.
AllocEntries(heap, tree) ==
    IF tree = << >> THEN [heap |-> heap, obj |-> << >>]
    ELSE LET before == AllocEntries(heap, Front(tree))
             e == Last(tree)
         IN  IF IsDict(e.v)
             THEN LET sub == AllocEntries(before.heap, e.v.d) IN
                  [heap |-> Append(sub.heap, sub.obj),
                   obj |-> Append(before.obj, Entry(e.k, Ref(Len(sub.heap) + 1)))]
             ELSE [heap |-> before.heap, obj |-> Append(before.obj, Entry(e.k, Imm(e.v)))]

Alloc(heap, tree) ==
    LET built == AllocEntries(heap, tree) IN
    [heap |-> Append(built.heap, built.obj), a |-> Len(built.heap) + 1]

RECURSIVE Deref(_, _)
\* The tree an object holds.
Deref(heap, a) ==
    [i \in DOMAIN heap[a] |->
        Entry(heap[a][i].k,
              IF heap[a][i].v.ref THEN Map(Deref(heap, heap[a][i].v.a)) ELSE heap[a][i].v.v)]

RECURSIVE ReachableFrom(_, _)
\* The objects of a tree.
ReachableFrom(heap, a) ==
    {a} \cup UNION {ReachableFrom(heap, e.v.a) : e \in {x \in Range(heap[a]) : x.v.ref}}

\* The module-level tables, in the order of their definitions.
TablesHeap ==
    Alloc(Alloc(Alloc(<< >>, COMMON_FIELD_DEFAULTS).heap, HEADING_DEFAULTS).heap,
          READ_MORE_DEFAULTS).heap

COMMON_ADDR == Alloc(<< >>, COMMON_FIELD_DEFAULTS).a

HEADING_ADDR == Alloc(Alloc(<< >>, COMMON_FIELD_DEFAULTS).heap, HEADING_DEFAULTS).a

READ_MORE_ADDR == Len(TablesHeap)

TableObjects ==
    ReachableFrom(TablesHeap, COMMON_ADDR) \cup ReachableFrom(TablesHeap, HEADING_ADDR)
        \cup ReachableFrom(TablesHeap, READ_MORE_ADDR)

\* A variant of _deep_copy_dict that hands out the dict it is given.
HeapNoCopy(heap, a) == [heap |-> heap, a |-> a]

RECURSIVE HeapCopyEntries(_, _)
\* The loop of _deep_copy_dict over d.items(): result[k] is a copy of v
\* when v is a dict, v otherwise.
HeapCopyEntries(heap, items) ==
    IF items = << >> THEN [heap |-> heap, obj |-> << >>]
    ELSE LET before == HeapCopyEntries(heap, Front(items))
             e == Last(items)
         IN  IF e.v.ref
             THEN LET sub == HeapCopyEntries(before.heap, before.heap[e.v.a]) IN
                  [heap |-> Append(sub.heap, sub.obj),
                   obj |-> DictSet(before.obj, Entry(e.k, Ref(Len(sub.heap) + 1)))]
             ELSE [heap |-> before.heap, obj |-> DictSet(before.obj, e)]

\* _deep_copy_dict
HeapDeepCopy(heap, a) ==
    LET copied == HeapCopyEntries(heap, heap[a]) IN
    [heap |-> Append(copied.heap, copied.obj), a |-> Len(copied.heap) + 1]

\* base.copy(): a new dict with the entries of the old one.
HeapShallowCopy(heap, a) == [heap |-> Append(heap, heap[a]), a |-> Len(heap) + 1]

\* dst.update(src): the entries of src, the addresses they hold included.
HeapUpdate(heap, dst, src) == [heap EXCEPT ![dst] = DictUpdate(heap[dst], heap[src])]

\* get_defaults_for_layout
HeapGetDefaults(heap, layout_fields) ==
    LET h0 == Append(heap, << >>)
        defaults == Len(h0)
        h1 == IF HasKey(layout_fields, <<"section", "_", "id">>)
              THEN HeapUpdate(h0, defaults, COMMON_ADDR) ELSE h0
        h2 == IF HasKey(layout_fields, <<"heading", ".", "text">>)
              THEN LET copy == HeapDeepCopy(h1, HEADING_ADDR)
                   IN  HeapUpdate(copy.heap, defaults, copy.a)
              ELSE h1
        h3 == IF HasKey(layout_fields, <<"read", "_", "more", "_", "text">>)
              THEN HeapUpdate(h2, defaults, READ_MORE_ADDR) ELSE h2
    IN  [heap |-> h3, a |-> defaults]

RECURSIVE HeapDeepMerge(_, _, _)
RECURSIVE HeapMergeLoop(_, _, _)
\* The loop of _deep_merge over override.items(), writing into result.
HeapMergeLoop(heap, result, items) ==
    IF items = << >> THEN heap
    ELSE LET h == HeapMergeLoop(heap, result, Front(items))
             key == Last(items).k
             value == Last(items).v
         IN  IF HasKey(h[result], key) /\ Get(h[result], key).v.ref /\ value.ref
             THEN LET merged == HeapDeepMerge(h, Get(h[result], key).v.a, value.a) IN
                  [merged.heap EXCEPT ![result] = DictSet(@, Entry(key, Ref(merged.a)))]
             ELSE [h EXCEPT ![result] = DictSet(@, Entry(key, value))]

\* _deep_merge
HeapDeepMerge(heap, base, override) ==
    LET copy == HeapShallowCopy(heap, base) IN
    [heap |-> HeapMergeLoop(copy.heap, copy.a, copy.heap[override]), a |-> copy.a]

\* apply_defaults
HeapApplyDefaults(heap, section, layout_fields) ==
    LET defaults == HeapGetDefaults(heap, layout_fields) IN
    HeapDeepMerge(defaults.heap, defaults.a, section)

\* transform_section: the section without its layout identifier is a new
\* dict, the merged tree is flattened into the new dict result.
HeapTransformSection(heap, section, layout_name, layout_fields) ==
    LET without == HeapShallowCopy(heap, section)
        merged == HeapApplyDefaults(without.heap, without.a, layout_fields)
    IN  Alloc(merged.heap,
              DictUpdate(<<Entry(ACF_FC_LAYOUT, layout_name)>>,
                         ConvertToFieldKeys(Deref(merged.heap, merged.a), layout_fields)))

\* The sections the callers of SpecDefaults build.
HeapSections == {s \in UserSections : Len(s) <= 1}

\* No call is running and no returned tree is held.
Idle(heap) ==
    [op |-> "none", heap |-> heap, root |-> 0, writes |-> 0,
     section |-> << >>, layout_fields |-> << >>]

InitDefaults ==
    /\ export = SchemaExport(<<G1>>, << >>, << >>, "top")
    /\ index = ACFIndex(export)
    /\ call = Idle(TablesHeap)

\* get_defaults_for_layout(layout_fields)
GetDefaultsHeapCall ==
    /\ call.root = 0
    /\ \E layout_fields \in PathMappings :
        LET r == HeapGetDefaults(call.heap, layout_fields) IN
        call' = [op |-> "get_defaults_for_layout", heap |-> r.heap, root |-> r.a,
                 writes |-> 0, section |-> << >>, layout_fields |-> layout_fields]
    /\ UNCHANGED <<export, index>>

\* apply_defaults(section, layout_fields) on a section the caller has built
ApplyDefaultsHeapCall ==
    /\ call.root = 0
    /\ \E section \in HeapSections, layout_fields \in PathMappings :
        LET s == Alloc(call.heap, section)
            r == HeapApplyDefaults(s.heap, s.a, layout_fields)
        IN  call' = [op |-> "apply_defaults", heap |-> r.heap, root |-> r.a,
                     writes |-> 0, section |-> section, layout_fields |-> layout_fields]
    /\ UNCHANGED <<export, index>>

\* transform_section(section, mapping) on a section of a layout of the mapping
TransformSectionHeapCall ==
    /\ call.root = 0
    /\ \E section \in HeapSections, i \in DOMAIN SiteMapping.layouts :
        LET name == Scalar(SiteMapping.layouts[i].k)
            layout_fields == GetLayoutFields(SiteMapping, name)
            s == Alloc(call.heap, section)
            r == HeapTransformSection(s.heap, s.a, name, layout_fields)
        IN  call' = [op |-> "transform_section", heap |-> r.heap, root |-> r.a,
                     writes |-> 0, section |-> section, layout_fields |-> layout_fields]
    /\ UNCHANGED <<export, index>>

\* The caller assigns to a key of a dict of the tree it was given.
ModifyReturned ==
    /\ call.root # 0
    /\ call.writes < MaxWrites
    /\ \E a \in ReachableFrom(call.heap, call.root) :
        \E key \in Keys(call.heap[a]) :
            call' = [call EXCEPT !.heap[a] = DictSet(@, Entry(key, Imm(Text("changed")))),
                                 !.writes = @ + 1]
    /\ UNCHANGED <<export, index>>

\* The caller drops the tree: the tables remain.
DropReturned ==
    /\ call.root # 0
    /\ call' = Idle(SubSeq(call.heap, 1, Len(TablesHeap)))
    /\ UNCHANGED <<export, index>>

NextDefaults ==
    \/ GetDefaultsHeapCall
    \/ ApplyDefaultsHeapCall
    \/ TransformSectionHeapCall
    \/ ModifyReturned
    \/ DropReturned

SpecDefaults == InitDefaults /\ [][NextDefaults]_vars

RECURSIVE JoinChain(_, _)
\* 'K1_..._Kn_F'
JoinChain(p, key) == IF p = << >> THEN key ELSE Underscore(Head(p), JoinChain(Tail(p), key))

ResolvedOk == call.op = "resolve_clone" /\ call.res.st = "ok"

FieldKeys(fields) == {fields[i].key : i \in 1..Len(fields)}

(***************************************************************************)
(* C1: on an acyclic clone-reference graph resolve_clone terminates and    *)
(* returns a list that holds no field of type clone.                       *)
(***************************************************************************)
C1_AcyclicResolves ==
    (call.op = "resolve_clone" /\ ~CyclicFrom(call.clone.key, index))
      => /\ call.res.st = "ok"
         /\ \A i \in 1..Len(call.res.fields) : call.res.fields[i].type # "clone"

\* An acyclic resolution through three clones (cA, cB, cC) to a leaf.
C1_Witness ==
    /\ ResolvedOk
    /\ ~CyclicFrom(call.clone.key, index)
    /\ call.clone.key = Str("cA")
    /\ JoinChain(<<Str("cA"), Str("cB"), Str("cC")>>, Str("t")) \in FieldKeys(call.res.fields)

(***************************************************************************)
(* C2: when a cycle can be reached, resolve_clone fails with the           *)
(* circular-reference error; its message names the clones of the chain     *)
(* that leads from the resolved clone to the revisited one, then the       *)
(* revisited key.                                                          *)
(***************************************************************************)
C2_CycleRaises ==
    (call.op = "resolve_clone" /\ CyclicFrom(call.clone.key, index))
      => /\ call.res.st = "circular"
         /\ Len(call.msg) = Cardinality(call.res.chain) + 1
         /\ call.msg[Len(call.msg)] = call.res.at
         /\ \E p \in SimpleChains(<<call.clone.key>>, index) :
              /\ Range(p) = {call.msg[i] : i \in 1..(Len(call.msg) - 1)}
              /\ call.res.at \in CloneTargets(p[Len(p)], index)
              /\ call.res.at \in Range(p)

\* A cycle of three clones.
C2_Witness ==
    /\ call.op = "resolve_clone"
    /\ call.res.st = "circular"
    /\ Cardinality(call.res.chain) = 3
    /\ call.msg[1] # call.clone.key

(***************************************************************************)
(* C3: prefixes accumulate inner-to-outer: the keys resolve_clone returns  *)
(* are exactly 'K1_..._Kn_F' for the clone chains K1, ..., Kn from the     *)
(* resolved clone and the fields F the last clone of the chain names.      *)
(***************************************************************************)
C3_PrefixChain ==
    ResolvedOk
      => FieldKeys(call.res.fields) =
           UNION {{JoinChain(p, f.key) : f \in DirectFields(p[Len(p)], index)} :
                    p \in SimpleChains(<<call.clone.key>>, index)}

\* Clone cA references clone cB (through group g1), cB references leaf t.
C3_Witness ==
    /\ ResolvedOk
    /\ call.clone.key = Str("cA")
    /\ call.clone.clone = <<G1>>
    /\ index.fields[Str("cB")].clone = <<Str("t")>>
    /\ <<"cA", "_", "cB", "_", "t">> \in FieldKeys(call.res.fields)

(***************************************************************************)
(* C4: processing a layout terminates with a PathMapping or with the       *)
(* circular-reference error, whatever cycles the schema holds.             *)
(***************************************************************************)
C4_LayoutProcessingTerminates ==
    call.op = "process_layout" => call.res.st \in {"ok", "circular"}

(***************************************************************************)
(* C5: the visited set is scoped to one branch: in an acyclic schema in    *)
(* which two sibling references, or two sibling clones of a group, lead to *)
(* the same clone, both are resolved and each contributes its fields.      *)
(***************************************************************************)
RECURSIVE ResolvedCount(_, _)
RECURSIVE ResolvedCountOfRef(_, _)
\* The number of fields the references of clone k stand for (acyclic graphs).
ResolvedCount(k, idx) ==
    LET refs == idx.fields[k].clone
        n[i \in 0..Len(refs)] ==
            IF i = 0 THEN 0 ELSE n[i - 1] + ResolvedCountOfRef(refs[i], idx)
    IN  n[Len(refs)]

ResolvedCountOfRef(ref, idx) ==
    IF ref \in DOMAIN idx.groups THEN
        LET fs == idx.groups[ref].fields
            n[i \in 0..Len(fs)] ==
                IF i = 0 THEN 0
                ELSE n[i - 1] + (IF fs[i].type = "clone"
                                   THEN ResolvedCount(fs[i].key, idx) ELSE 1)
        IN  n[Len(fs)]
    ELSE IF ref \in DOMAIN idx.fields THEN
        (IF idx.fields[ref].type = "clone" THEN ResolvedCount(ref, idx) ELSE 1)
    ELSE 0

\* Two siblings (references of one clone, or clone fields of one group
\* reached from k) lead to one and the same clone.
SiblingsShareClone(k, idx) ==
    \/ \E x \in CloneClosure({k}, idx) :
         \E i, j \in 1..Len(idx.fields[x].clone) :
            /\ i < j
            /\ CloneClosure(CloneTargetsOfRef(idx.fields[x].clone[i], idx), idx)
                 \cap CloneClosure(CloneTargetsOfRef(idx.fields[x].clone[j], idx), idx) # {}
    \/ \E x \in CloneClosure({k}, idx) :
         \E i \in 1..Len(idx.fields[x].clone) :
            LET ref == idx.fields[x].clone[i] IN
            /\ ref \in DOMAIN idx.groups
            /\ \E a, b \in CloneTargetsOfRef(ref, idx) :
                 /\ a # b
                 /\ CloneClosure({a}, idx) \cap CloneClosure({b}, idx) # {}

C5_SiblingBranchesIndependent ==
    (/\ call.op = "resolve_clone"
     /\ ~CyclicFrom(call.clone.key, index)
     /\ SiblingsShareClone(call.clone.key, index))
      => /\ call.res.st = "ok"
         /\ Len(call.res.fields) = ResolvedCount(call.clone.key, index)

\* cA references g1 twice, and g1's clones cB and cE both reference cC.
C5_Witness ==
    /\ ResolvedOk
    /\ call.clone.key = Str("cA")
    /\ call.clone.clone = <<G1, G1>>
    /\ index.fields[Str("cB")].clone = <<Str("cC")>>
    /\ index.fields[Str("cC")].clone = <<Str("t")>>
    /\ Len(call.res.fields) = 6

(***************************************************************************)
(* C6: a PathMapping holds, at every nesting level, no path that comes     *)
(* from a UI-only field or from a field with an empty name.                *)
(***************************************************************************)
RECURSIVE AllEntries(_)
\* The entries of a PathMapping and of its nested repeater mappings.
AllEntries(m) == Range(m) \cup UNION {AllEntries(m[i].sub) : i \in 1..Len(m)}

SkippedField(f) == f.type \in UI_ONLY_TYPES \/ f.name = EmptyStr

\* key is k, or k behind a clone prefix.
KeyOfField(key, k) ==
    /\ Len(key) >= Len(k)
    /\ SubSeq(key, Len(key) - Len(k) + 1, Len(key)) = k
    /\ Len(key) > Len(k) => key[Len(key) - Len(k)] = "_"

\* No segment of the path is empty.
NoEmptySegment(path) ==
    /\ path # EmptyStr
    /\ path[1] # "." /\ path[Len(path)] # "."
    /\ \A i \in 1..(Len(path) - 1) :
         /\ ~(path[i] = "." /\ path[i + 1] \in {".", "["})

C6_NoUiOrUnnamedPaths ==
    (call.op \in {"build_field_paths", "process_layout"} /\ call.res.st = "ok")
      => \A e \in AllEntries(call.res.map) :
           /\ NoEmptySegment(e.k)
           /\ e.k[1] # "["
           /\ \A k \in DOMAIN index.fields :
                SkippedField(index.fields[k]) =>
                  /\ e.leaf => ~KeyOfField(e.key, k)
                  /\ index.fields[k].name # EmptyStr =>
                       \A i \in 1..Len(e.k) : <<e.k[i]>> # index.fields[k].name

\* The fields of g2 (a tab, an unnamed leaf, a group holding a message, a
\* repeater holding an accordion and an unnamed leaf) compiled to paths.
C6_Witness ==
    /\ call.op = "build_field_paths"
    /\ call.res.st = "ok"
    /\ \E i \in 1..Len(call.fields) : call.fields[i].type = "tab"
    /\ \E i \in 1..Len(call.fields) : call.fields[i].name = EmptyStr
    /\ \E e \in Range(call.res.map) : ~e.leaf /\ Len(e.sub) > 0
    /\ \E e \in Range(call.res.map) : e.leaf

RECURSIVE LeafSeq(_, _)
\* The leaves of a tree in iteration order: every value that is not a dict,
\* with its path, the keys from the root down to it.
LeafSeq(d, path) ==
    IF d = << >> THEN << >>
    ELSE LET e == Head(d)
             here == Append(path, e.k)
         IN  (IF IsDict(e.v) THEN LeafSeq(e.v.d, here)
              ELSE <<[path |-> here, value |-> e.v]>>)
             \o LeafSeq(Tail(d), path)

LeavesOf(d) == Range(LeafSeq(d, << >>))

HeadingPath(rest) == <<Str("heading")>> \o rest

Leaf(path, value) == [path |-> path, value |-> value]

(***************************************************************************)
(* C7: every leaf value of the user section, at any depth, is in the tree  *)
(* apply_defaults returns, with the same value at the same path.           *)
(***************************************************************************)
C7_UserLeavesKept ==
    call.op = "apply_defaults" => LeavesOf(call.section) \subseteq LeavesOf(call.res)

\* A heading the user gives in part, on a layout with heading defaults: the
\* user's nested leaf and the defaults beside it are both in the result.
C7_Witness ==
    /\ call.op = "apply_defaults"
    /\ HasKey(call.layout_fields, HeadingTextPath)
    /\ Leaf(HeadingPath(<<Str("alignment"), Str("desktop")>>), Text("left"))
           \in LeavesOf(call.section)
    /\ Leaf(HeadingPath(<<Str("alignment"), Str("desktop")>>), Text("left"))
           \in LeavesOf(call.res)
    /\ Leaf(HeadingPath(<<Str("alignment"), Str("mobile")>>), Text("inherit"))
           \in LeavesOf(call.res)

(***************************************************************************)
(* C8: on a layout whose PathMapping holds 'heading.text', apply_defaults  *)
(* of a section that gives heading.text alone returns the user's           *)
(* heading.text with heading.level 'h2' and heading.alignment.desktop and  *)
(* .mobile 'inherit' of the heading defaults.                              *)
(***************************************************************************)
OnlyHeadingText(section) ==
    /\ Len(section) = 1
    /\ section[1].k = Str("heading")
    /\ IsDict(section[1].v)
    /\ Len(section[1].v.d) = 1
    /\ section[1].v.d[1].k = Str("text")

C8_PartialHeadingFilled ==
    (/\ call.op = "apply_defaults"
     /\ HasKey(call.layout_fields, HeadingTextPath)
     /\ OnlyHeadingText(call.section))
    => /\ HasKey(call.res, Str("heading"))
       /\ IsDict(Get(call.res, Str("heading")).v)
       /\ LeafSeq(<<Get(call.res, Str("heading"))>>, << >>) =
            << Leaf(HeadingPath(<<Str("text")>>), call.section[1].v.d[1].v),
               Leaf(HeadingPath(<<Str("level")>>), Text("h2")),
               Leaf(HeadingPath(<<Str("alignment"), Str("desktop")>>), Text("inherit")),
               Leaf(HeadingPath(<<Str("alignment"), Str("mobile")>>), Text("inherit")) >>

C8_Witness ==
    /\ call.op = "apply_defaults"
    /\ call.layout_fields = PartialFields
    /\ OnlyHeadingText(call.section)
    /\ Leaf(HeadingPath(<<Str("text")>>), Text("W")) \in LeavesOf(call.res)
    /\ Leaf(HeadingPath(<<Str("level")>>), Text("h2")) \in LeavesOf(call.res)

RECURSIVE JoinDots(_)
\* 'k1.k2.….kn'
JoinDots(path) ==
    IF Len(path) = 1 THEN path[1] ELSE path[1] \o <<".">> \o JoinDots(Tail(path))

\* The section names a layout of the mapping.
KnownLayout(section, mapping) ==
    /\ HasKey(section, ACF_FC_LAYOUT)
    /\ Get(section, ACF_FC_LAYOUT).v.s \in Keys(mapping.layouts)

AcceptedCall == call.op = "transform_section" /\ KnownLayout(call.section, call.mapping)

FieldsOfCall ==
    Get(call.mapping.layouts, Get(call.section, ACF_FC_LAYOUT).v.s).fields

\* The leaves of the defaults-merged tree of the call, in iteration order.
MergedLeaves == LeafSeq(ApplyDefaults(WithoutLayout(call.section), FieldsOfCall), << >>)

\* A top-level scalar, or a leaf of a nested map.
ScalarOrNested(leaf) == Len(leaf.path) > 1 \/ ~IsList(leaf.value)

KnownLeafPath(fields, p) == \E i \in 1..Len(fields) : fields[i].k = p /\ fields[i].leaf

\* The key a leaf is emitted under: the field key of its dot-path when the
\* dot-path is a known leaf path, the name or dot-path itself otherwise.
OutputKey(leaf, fields) ==
    LET p == JoinDots(leaf.path) IN
    IF KnownLeafPath(fields, p)
    THEN fields[CHOOSE i \in 1..Len(fields) : fields[i].k = p].key
    ELSE p

\* The key any entry of the merged tree is emitted under: a top-level list
\* of a known repeater keeps its name.
EmitKey(leaf, fields) ==
    IF /\ Len(leaf.path) = 1
       /\ IsList(leaf.value)
       /\ \E i \in 1..Len(fields) :
            fields[i].k = leaf.path[1] \o <<"[", "]">> /\ ~fields[i].leaf
    THEN leaf.path[1]
    ELSE OutputKey(leaf, fields)

Emitted(leaf, fields, out) ==
    /\ HasKey(out, OutputKey(leaf, fields))
    /\ Get(out, OutputKey(leaf, fields)).v = leaf.value

(***************************************************************************)
(* C9 as stated: for an accepted section, every leaf of the                *)
(* defaults-merged tree (a top-level scalar or a leaf of a nested map) is  *)
(* emitted by transform_section with its value under the mapped field key  *)
(* when its dot-path is a known leaf path, under its name or dot-path      *)
(* otherwise.                                                              *)
(***************************************************************************)
C9_EveryLeafEmitted ==
    AcceptedCall =>
        LET fields == FieldsOfCall
            leaves == MergedLeaves
        IN  /\ call.res.st = "ok"
            /\ \A i \in 1..Len(leaves) :
                 ScalarOrNested(leaves[i]) => Emitted(leaves[i], fields, call.res.out)

(***************************************************************************)
(* C9, amended: for an accepted section, every leaf of the                 *)
(* defaults-merged tree is emitted so, unless an entry later in the        *)
(* tree's order is emitted under the same output key: that key then holds  *)
(* the later entry's value.                                                *)
(***************************************************************************)
C9_LastLeafOfKeyEmitted ==
    AcceptedCall =>
        LET fields == FieldsOfCall
            leaves == MergedLeaves
        IN  /\ call.res.st = "ok"
            /\ \A i \in 1..Len(leaves) :
                 (/\ ScalarOrNested(leaves[i])
                  /\ \A j \in (i + 1)..Len(leaves) :
                       EmitKey(leaves[j], fields) # EmitKey(leaves[i], fields))
                 => Emitted(leaves[i], fields, call.res.out)

\* The flat name 'heading.text' on a layout with heading defaults: the
\* default heading.text and the user's value share the field key, the key
\* holds the user's value; a nested default and an unknown name are
\* emitted beside it.
C9_Witness ==
    /\ AcceptedCall
    /\ call.mapping = SiteMapping
    /\ call.section = << Entry(ACF_FC_LAYOUT, Text("hero")),
                         Entry(HeadingTextPath, Text("W2")),
                         Entry(Str("note"), Text("n")) >>
    /\ Get(call.res.out, FieldKey("ht")).v = Text("W2")
    /\ Get(call.res.out, FieldKey("had")).v = Text("inherit")
    /\ Get(call.res.out, Str("note")).v = Text("n")

(***************************************************************************)
(* C10: transform_to_acf raises nothing and returns                        *)
(* {acf: {flexible_content_key: L}}, L holding one translated section for  *)
(* each input section whose layout name the mapping knows, in input order, *)
(* each with its own layout name as acf_fc_layout; the other sections are  *)
(* dropped.                                                                *)
(***************************************************************************)
KeptSections == SelectSeq(call.sections, LAMBDA s : KnownLayout(s, call.mapping))

C10_TransformKeepsKnownLayouts ==
    call.op = "transform_to_acf" =>
        /\ call.res.st = "ok"
        /\ Len(call.res.out) = 1
        /\ call.res.out[1].k = Str("acf")
        /\ IsDict(call.res.out[1].v)
        /\ Len(call.res.out[1].v.d) = 1
        /\ call.res.out[1].v.d[1].k = call.mapping.flexible_content_key
        /\ IsList(call.res.out[1].v.d[1].v)
        /\ LET L == call.res.out[1].v.d[1].v.l IN
           /\ Len(L) = Len(KeptSections)
           /\ \A i \in 1..Len(KeptSections) :
                /\ L[i] = Map(TransformSection(KeptSections[i], call.mapping).out)
                /\ Get(L[i].d, ACF_FC_LAYOUT).v = Get(KeptSections[i], ACF_FC_LAYOUT).v

\* A list with an unknown layout, a section without a layout and two known
\* layouts: the two known ones are in the payload, in their order.
C10_Witness ==
    /\ call.op = "transform_to_acf"
    /\ call.mapping = SiteMapping
    /\ Len(call.sections) = 3
    /\ LayoutNameOf(call.sections[1]) = Text("more")
    /\ LayoutNameOf(call.sections[2]) \in {Text("nope"), None, Scalar(EmptyStr)}
    /\ LayoutNameOf(call.sections[3]) = Text("hero")
    /\ call.res.st = "ok"
    /\ Len(call.res.out[1].v.d[1].v.l) = 2
    /\ Get(call.res.out[1].v.d[1].v.l[1].d, ACF_FC_LAYOUT).v = Text("more")
    /\ Get(call.res.out[1].v.d[1].v.l[2].d, ACF_FC_LAYOUT).v = Text("hero")

\* The path of the leaf, with '[]', is a repeater entry of the mapping.
RepeaterPath(leaf, fields) ==
    IsList(leaf.value) /\ MapsToDict(fields, JoinDots(leaf.path) \o <<"[", "]">>)

SubMappingOf(leaf, fields) == Get(fields, JoinDots(leaf.path) \o <<"[", "]">>).sub

\* Every known sub-field name of the row is replaced by its field key.
RowTranslated(row, out_row, sub) ==
    IF IsDict(row)
    THEN /\ IsDict(out_row)
         /\ \A i \in 1..Len(row.d) :
              KnownLeafPath(sub, row.d[i].k)
              => /\ ~HasKey(out_row.d, row.d[i].k)
                 /\ HasKey(out_row.d, Get(sub, row.d[i].k).key)
                 /\ Get(out_row.d, Get(sub, row.d[i].k).key).v = row.d[i].v
    ELSE out_row = row

(***************************************************************************)
(* C11: a list value whose name, at the top level or inside a group,       *)
(* matches a '{name}[]' or '{group}.{name}[]' entry of the layout's        *)
(* PathMapping is emitted as a list of the same length and row order, in   *)
(* each row every known sub-field name replaced by its field key.          *)
(***************************************************************************)
C11_RepeaterRowsTranslated ==
    AcceptedCall =>
        LET fields == FieldsOfCall
            leaves == MergedLeaves
        IN  \A i \in 1..Len(leaves) :
              RepeaterPath(leaves[i], fields)
              => \E e \in Range(call.res.out) :
                   /\ IsList(e.v)
                   /\ Len(e.v.l) = Len(leaves[i].value.l)
                   /\ \A r \in 1..Len(e.v.l) :
                        RowTranslated(leaves[i].value.l[r], e.v.l[r],
                                      SubMappingOf(leaves[i], fields))

\* The repeater name of an entry '{name}[]'.
BareName(key) == SubSeq(key, 1, Len(key) - 2)

RECURSIVE KnownPathSet(_)
\* The known-path set of a PathMapping: every leaf path and each of its
\* dot-segment prefixes; for a repeater entry its bare name, the group
\* prefixes of that name and its sub-field paths.
KnownPathSet(fields) ==
    UNION { IF fields[i].leaf
            THEN {fields[i].k} \cup DotPrefixes(fields[i].k)
            ELSE {BareName(fields[i].k)} \cup DotPrefixes(BareName(fields[i].k))
                 \cup {BareName(fields[i].k) \o <<".">> \o p : p \in KnownPathSet(fields[i].sub)}
          : i \in 1..Len(fields) }

RECURSIVE NodePaths(_, _)
\* The paths a tree supplies: of every leaf and of every nested map.
NodePaths(d, path) ==
    UNION { {JoinDots(Append(path, d[i].k))}
            \cup (IF IsDict(d[i].v) THEN NodePaths(d[i].v.d, Append(path, d[i].k)) ELSE {})
          : i \in 1..Len(d) }

ValidateCall == call.op = "validate_sections"

FieldWarningAt(i, p) ==
    \E w \in Range(call.res.out) :
        w.kind = "unknown_field" /\ w.index = i - 1 /\ w.path = p

(***************************************************************************)
(* C12: for an accepted section, validate_sections warns of an unknown     *)
(* field at a user-supplied path exactly when the path is not in the       *)
(* layout's known-path set (leaf paths, their dot-segment prefixes, the    *)
(* group prefixes of repeater entries, bare repeater names, repeater       *)
(* sub-field paths).                                                       *)
(***************************************************************************)
C12_WarningIffUnknownPath ==
    ValidateCall =>
        \A i \in 1..Len(call.sections) :
            KnownLayout(call.sections[i], call.mapping)
            => LET section == call.sections[i]
                   known == KnownPathSet(GetLayoutFields(call.mapping,
                                                         LayoutNameOf(section)))
               IN  \A p \in NodePaths(WithoutLayout(section), << >>) :
                       FieldWarningAt(i, p) <=> p \notin known

WarningsAt(i) == {j \in 1..Len(call.res.out) : call.res.out[j].index = i - 1}

(***************************************************************************)
(* C13: validate_sections raises nothing and returns a list of warnings    *)
(* with exactly one warning, of the missing-layout kind, for each section  *)
(* without a layout identifier and exactly one, of the unknown-layout      *)
(* kind, for each section naming a layout the mapping lacks: no field      *)
(* warning for such a section.                                             *)
(***************************************************************************)
C13_ValidateWarnsOncePerBadLayout ==
    ValidateCall =>
        /\ call.res.st = "ok"
        /\ \A i \in 1..Len(call.sections) :
             LET section == call.sections[i] IN
             ~KnownLayout(section, call.mapping)
             => /\ Cardinality(WarningsAt(i)) = 1
                /\ \A j \in WarningsAt(i) :
                     IF HasKey(section, ACF_FC_LAYOUT)
                        /\ Get(section, ACF_FC_LAYOUT).v # Scalar(EmptyStr)
                     THEN /\ call.res.out[j].kind = "unknown_layout"
                          /\ call.res.out[j].layout = Get(section, ACF_FC_LAYOUT).v.s
                     ELSE call.res.out[j].kind = "missing_layout"

\* A section without a layout, one with an unknown layout and one with a
\* known layout and a field the layout lacks: three warnings, in order.
C13_Witness ==
    /\ ValidateCall
    /\ call.mapping = SiteMapping
    /\ Len(call.sections) = 3
    /\ LayoutNameOf(call.sections[1]) = None
    /\ LayoutNameOf(call.sections[2]) = Text("nope")
    /\ LayoutNameOf(call.sections[3]) = Text("partial")
    /\ call.res.out = << MissingLayoutWarning(0),
                         UnknownLayoutWarning(1, Text("nope")),
                         Warning("unknown_field", 2, Str("partial"), ContentName) >>

Extracting == call.op = "extract_page_sections_layouts"

\* The layouts the extraction iterates over, when it reaches its loop.
IteratedLayouts ==
    IF PAGE_SECTIONS_GROUP_KEY \in DOMAIN index.groups
       /\ FindFlexibleContentField(index.groups[PAGE_SECTIONS_GROUP_KEY].fields).st = "ok"
    THEN FindFlexibleContentField(index.groups[PAGE_SECTIONS_GROUP_KEY].fields).field.layouts
    ELSE << >>

LayoutFails(layout) == ~layout.named \/ ProcessLayout(layout, index).st # "ok"

\* The export without the layout whose key is lkey.
RemoveLayout(export_data, lkey) ==
    [g \in DOMAIN export_data |->
        LET fields == export_data[g].fields IN
        Group(export_data[g].key,
              [i \in DOMAIN fields |->
                  [key |-> fields[i].key, type |-> fields[i].type, name |-> fields[i].name,
                   sub_fields |-> fields[i].sub_fields, clone |-> fields[i].clone,
                   layouts |-> SelectSeq(fields[i].layouts, LAMBDA l : l.lkey # lkey)]])]

\* C14: when processing one layout fails, extract_page_sections_layouts
\* still returns a mapping set, the failing layout is absent from it, and
\* the layouts of the set are those, with the PathMappings, of the
\* extraction from the export without the failing layout.
C14_LayoutFailuresIsolated ==
    Extracting =>
        \A i \in DOMAIN IteratedLayouts :
            LET layout == IteratedLayouts[i] IN
            LayoutFails(layout) =>
                /\ call.res.st = "ok"
                /\ layout.named => ~HasKey(call.res.mapping.layouts, layout.name)
                /\ call.res.mapping.layouts
                     = ExtractPageSectionsLayouts(RemoveLayout(export, layout.lkey)).mapping.layouts

\* The groups of the export with the Page Sections key, and the fields with
\* the flexible-content key among the top-level fields of a group.
PageSectionsGroups == {g \in Range(export) : g.key = PAGE_SECTIONS_GROUP_KEY}

DesignatedFields(group) == {f \in Range(group.fields) : f.key = PAGE_SECTIONS_FIELD_KEY}

MalformedTopLevel ==
    \/ PageSectionsGroups = {}
    \/ \E g \in PageSectionsGroups :
           \/ DesignatedFields(g) = {}
           \/ \E f \in DesignatedFields(g) : f.type # "flexible_content"

\* C15: when the Page Sections group is absent, or has no top-level field
\* with the flexible-content key, or that field is not of type
\* flexible_content, extract_page_sections_layouts ends with an error and
\* no mapping set.
C15_MalformedTopLevelIsFatal ==
    (Extracting /\ MalformedTopLevel) =>
        /\ call.res.st = "ValueError"
        /\ call.res.mapping.layouts = << >>

C15_Witness ==
    /\ Extracting
    /\ \E g \in PageSectionsGroups : \E f \in DesignatedFields(g) :
           f.type # "flexible_content" /\ f.layouts # << >>
    /\ call.res.st = "ValueError"

Compiling == call.op = "compile_layouts"

\* C16: under every interleaving of the tasks' steps, a task that has ended
\* holds the outcome (PathMapping or error) of _process_layout run alone on
\* its layout; in particular it ends with a circular-reference error only
\* when the layout alone does.
C16_InterleavingKeepsOutcome ==
    Compiling =>
        \A p \in DOMAIN call.tasks :
            call.tasks[p].pc = "done" =>
                call.tasks[p].res = ProcessLayout(call.tasks[p].layout, index)

\* A task has compiled its layout while another task is inside resolve_clone
\* calls that have visited a clone the first one visited too.
C16_Witness ==
    /\ Compiling
    /\ \E p, q \in DOMAIN call.tasks :
        /\ call.tasks[p].pc = "done"
        /\ call.tasks[p].res.st = "ok"
        /\ call.tasks[q].pc = "resolve"
        /\ Visited(call.tasks, q)
             \cap CloneClosure({f.key : f \in Range(call.tasks[p].layout.sub_fields)}, index) # {}

TransformerOps == {"transform_section", "transform_to_acf", "validate_sections"}

BuildOk == call.op = "build_field_paths" /\ call.res.st = "ok"

\* The clone fields of the list given to the call.
ClonesGiven == {f \in Range(call.fields) : f.type = "clone"}

\* The mapping compiled, under the call's prefix, from the resolved field
\* list of clone c.
CompiledFromClone(c) ==
    LET expanded == ResolveClone(c, index, {}) IN
    IF expanded.st # "ok" THEN Raised(expanded)
    ELSE BuildFieldPaths(expanded.fields, index, call.prefix, {}, 1)

RECURSIVE Segments(_)
\* The segments of the paths of a PathMapping, those of nested mappings too.
Segments(m) ==
    IF m = << >> THEN {}
    ELSE Range(Head(m).k) \cup Segments(Head(m).sub) \cup Segments(Tail(m))

\* C18: for every clone field of the list given to build_field_paths, the
\* mapping holds each entry compiled from the clone's resolved field list
\* under the same prefix, and the clone's name is no segment of a path.
C18_CloneEntriesPresent ==
    BuildOk =>
        \A c \in ClonesGiven :
            /\ CompiledFromClone(c).st = "ok"
                  => Range(CompiledFromClone(c).map) \subseteq Range(call.res.map)
            /\ \A tok \in Range(c.name) : tok \notin Segments(call.res.map)

RECURSIVE Spliced(_, _)
\* The list with each named clone replaced by its resolved field list and
\* each unnamed clone removed.
Spliced(fields, idx) ==
    IF fields = << >> THEN << >>
    ELSE LET field == Head(fields) IN
         (IF field.type # "clone" THEN <<field>>
          ELSE IF field.name = EmptyStr THEN << >>
          ELSE ResolveClone(field, idx, {}).fields)
         \o Spliced(Tail(fields), idx)

\* C18, amended: the mapping is the one compiled, under the same prefix,
\* from the list in which the resolved field list of each named clone
\* stands in the clone's place and from which each unnamed clone is gone;
\* the clone's name is no segment of a path.
C18_ClonesSplicedInPlace ==
    BuildOk =>
        LET spliced == BuildFieldPaths(Spliced(call.fields, index), index, call.prefix, {}, 1)
        IN  /\ spliced.st = "ok"
            /\ call.res.map = spliced.map
            /\ \A c \in ClonesGiven : \A tok \in Range(c.name) : tok \notin Segments(call.res.map)

\* A named clone has entries in the mapping, and a later field of the list
\* has overwritten one of them.
C18_Witness ==
    /\ BuildOk
    /\ \E c \in ClonesGiven :
        /\ c.name # EmptyStr
        /\ CompiledFromClone(c).st = "ok"
        /\ Range(CompiledFromClone(c).map) \cap Range(call.res.map) # {}
        /\ \E e \in Range(CompiledFromClone(c).map) :
               e \notin Range(call.res.map) /\ HasKey(call.res.map, e.k)

RECURSIVE Recorded(_, _, _)
\* The entries that the named fields of a list call for, in source order: a
\* leaf inside the groups g1..gk at prefix.g1.....gk.name with its key, a
\* repeater at its path followed by [] with the mapping of its sub-fields
\* compiled under the empty prefix; a clone stands for its resolved fields.
Recorded(fields, idx, prefix) ==
    IF fields = << >> THEN << >>
    ELSE LET field == Head(fields)
             path == DotJoin(prefix, field.name)
         IN  (IF field.type \in UI_ONLY_TYPES \/ field.name = EmptyStr THEN << >>
              ELSE IF field.type = "clone"
                THEN Recorded(ResolveClone(field, idx, {}).fields, idx, prefix)
              ELSE IF field.type = "group" THEN Recorded(field.sub_fields, idx, path)
              ELSE IF field.type = "repeater"
                THEN <<RepeaterEntry(path \o <<"[", "]">>,
                           BuildFieldPaths(field.sub_fields, idx, EmptyStr, {}, 1).map)>>
              ELSE <<LeafEntry(path, field.key)>>)
             \o Recorded(Tail(fields), idx, prefix)

\* The paths under which a sub-field path of the repeater at `key` would
\* show in the outer mapping.
LeakedPaths(key, sub_path) ==
    {key \o <<".">> \o sub_path, SubSeq(key, 1, Len(key) - 2) \o <<".">> \o sub_path}

NoRepeaterLeak(m, rec) ==
    \A i \in DOMAIN rec :
        ~rec[i].leaf =>
            \A e \in Range(rec[i].sub) : \A q \in LeakedPaths(rec[i].k, e.k) : ~HasKey(m, q)

\* C19: in the mapping build_field_paths returns, each leaf inside groups
\* g1..gk sits at 'g1.....gk.n' with its field key, each repeater at 'p.r[]'
\* with the nested mapping of its sub-fields, whose paths are relative to
\* the repeater, and no sub-field path of a repeater is an outer path.
C19_EveryFieldAtItsPath ==
    BuildOk =>
        LET rec == Recorded(call.fields, index, call.prefix) IN
        /\ \A i \in DOMAIN rec :
               HasKey(call.res.map, rec[i].k) /\ Get(call.res.map, rec[i].k) = rec[i]
        /\ NoRepeaterLeak(call.res.map, rec)

\* C19, amended: the same for each leaf and repeater that no later field of
\* the compilation shares its path with; every path is present.
C19_LastFieldAtItsPath ==
    BuildOk =>
        LET rec == Recorded(call.fields, index, call.prefix) IN
        /\ \A i \in DOMAIN rec :
               /\ HasKey(call.res.map, rec[i].k)
               /\ (\A j \in DOMAIN rec : j > i => rec[j].k # rec[i].k)
                      => Get(call.res.map, rec[i].k) = rec[i]
        /\ {rec[i].k : i \in DOMAIN rec} = Keys(call.res.map)
        /\ NoRepeaterLeak(call.res.map, rec)

\* A call under a prefix whose mapping holds a leaf of a group, a repeater
\* with sub-fields, and the later of two leaves compiled to one path.
C19_Witness ==
    /\ BuildOk
    /\ call.prefix # EmptyStr
    /\ LET rec == Recorded(call.fields, index, call.prefix) IN
       /\ \E i, j \in DOMAIN rec :
              /\ i < j /\ rec[i].k = rec[j].k /\ rec[i] # rec[j]
              /\ Get(call.res.map, rec[j].k) = rec[j]
       /\ \E i \in DOMAIN rec :
              rec[i].leaf /\ Len(rec[i].k) >= 5 /\ Get(call.res.map, rec[i].k) = rec[i]
       /\ \E i \in DOMAIN rec :
              ~rec[i].leaf /\ rec[i].sub # << >> /\ Get(call.res.map, rec[i].k) = rec[i]

RECURSIVE OnePerPath(_)
\* No two entries of the mapping, or of a mapping nested in it, have one path.
OnePerPath(m) ==
    /\ \A i, j \in DOMAIN m : m[i].k = m[j].k => i = j
    /\ \A i \in DOMAIN m : OnePerPath(m[i].sub)

\* C20: a compiled mapping has one entry per path, and a path that several
\* fields compile to holds the value of the last of them in source order.
C20_OneValuePerPathLastWins ==
    BuildOk =>
        LET rec == Recorded(call.fields, index, call.prefix) IN
        /\ OnePerPath(call.res.map)
        /\ \A i \in DOMAIN call.res.map :
               LET path == call.res.map[i].k
                   fields == {j \in DOMAIN rec : rec[j].k = path}
               IN  /\ fields # {}
                   /\ call.res.map[i] = rec[CHOOSE j \in fields : \A x \in fields : x <= j]

\* Three fields compile to one path with three keys, and the mapping holds
\* the key of the third.
C20_Witness ==
    /\ BuildOk
    /\ LET rec == Recorded(call.fields, index, call.prefix) IN
       \E i, j, l \in DOMAIN rec :
           /\ i < j /\ j < l
           /\ rec[i].k = rec[l].k /\ rec[j].k = rec[l].k
           /\ rec[i].key # rec[j].key /\ rec[j].key # rec[l].key /\ rec[i].key # rec[l].key
           /\ \A x \in DOMAIN rec : x > l => rec[x].k # rec[l].k
           /\ Get(call.res.map, rec[l].k) = rec[l]

Resolving == call.op = "resolve_clone"

KnownRef(ref) == ref \in DOMAIN index.groups \/ ref \in DOMAIN index.fields

\* The fields one known reference of the clone delivers.
FieldsOfRef(ref) ==
    IF ref \in DOMAIN index.groups
    THEN ResolveGroupRef(ref, index, {call.clone.key})
    ELSE ResolveFieldRef(ref, index, {call.clone.key})

RECURSIVE FieldsOfKnownRefs(_)
\* The concatenation, in reference order, of the fields of the known
\* references among refs.
FieldsOfKnownRefs(refs) ==
    IF refs = << >> THEN << >>
    ELSE (IF KnownRef(Head(refs)) THEN FieldsOfRef(Head(refs)).fields ELSE << >>)
         \o FieldsOfKnownRefs(Tail(refs))

\* C21: an unknown reference is skipped without error: when each known
\* reference of the clone resolves, resolve_clone returns the concatenation,
\* in reference order, of their fields under the clone's prefix, the empty
\* list when no reference is known.
C21_UnknownReferenceSkipped ==
    (Resolving /\ \A i \in DOMAIN call.clone.clone :
                      KnownRef(call.clone.clone[i]) => FieldsOfRef(call.clone.clone[i]).st = "ok")
        => /\ call.res.st = "ok"
           /\ call.res.fields = PrefixKeys(FieldsOfKnownRefs(call.clone.clone), call.clone.key)
           /\ (\A i \in DOMAIN call.clone.clone : ~KnownRef(call.clone.clone[i]))
                  => call.res.fields = << >>

\* A clone whose first reference is unknown and whose second delivers fields.
C21_Witness ==
    /\ Resolving
    /\ call.res.st = "ok"
    /\ Len(call.clone.clone) = 2
    /\ ~KnownRef(call.clone.clone[1])
    /\ KnownRef(call.clone.clone[2])
    /\ call.res.fields # << >>
    /\ call.res.fields = PrefixKeys(FieldsOfRef(call.clone.clone[2]).fields, call.clone.key)

RECURSIVE AllFields(_)
\* The fields of a list and those under their sub_fields, at every depth.
AllFields(fields) ==
    IF fields = << >> THEN {}
    ELSE {Head(fields)} \cup AllFields(Head(fields).sub_fields) \cup AllFields(Tail(fields))

StartsWith(s, p) == Len(s) >= Len(p) /\ SubSeq(s, 1, Len(p)) = p

EndsWith(s, p) == Len(s) >= Len(p) /\ SubSeq(s, Len(s) - Len(p) + 1, Len(s)) = p

FullyPrefixed(fields, clone_key) ==
    \A f \in AllFields(fields) : StartsWith(f.key, clone_key \o <<"_">>)

\* C22: every field resolve_clone returns is clone-free at every depth and
\* fully prefixed: no clone field is in the list or under a returned
\* field's sub_fields, and every key, nested ones too, starts with the
\* resolving clone's key and '_'.
C22_ResolvedCloneFreeAtEveryDepth ==
    ResolvedOk =>
        /\ \A f \in AllFields(call.res.fields) : f.type # "clone"
        /\ FullyPrefixed(call.res.fields, call.clone.key)

\* C22, amended: no field of the returned list is a clone, and every key,
\* nested ones too, starts with the resolving clone's key and '_'; a clone
\* under the sub_fields of a referenced group or repeater field is returned
\* in its place, unresolved, with its key prefixed.
C22_ResolvedListCloneFreeAndPrefixed ==
    ResolvedOk =>
        /\ \A i \in DOMAIN call.res.fields : call.res.fields[i].type # "clone"
        /\ FullyPrefixed(call.res.fields, call.clone.key)
        /\ \A i \in DOMAIN call.res.fields :
               \A f \in AllFields(call.res.fields[i].sub_fields) :
                   f.type = "clone" =>
                       \E k \in DOMAIN index.fields :
                           /\ index.fields[k].type = "clone"
                           /\ index.fields[k].clone = f.clone
                           /\ EndsWith(f.key, <<"_">> \o k)

\* The resolved fields of a clone of a group hold a clone under the
\* sub_fields of a group field.
C22_Witness ==
    /\ ResolvedOk
    /\ \E i \in DOMAIN call.res.fields :
           /\ call.res.fields[i].type = "group"
           /\ \E f \in Range(call.res.fields[i].sub_fields) :
                  f.type = "clone" /\ StartsWith(f.key, call.clone.key \o <<"_">>)

ApplyingDefaults == call.op = "apply_defaults"

RECURSIVE MergedByRule(_, _, _)
\* The map `merged` holds the keys of both maps; a key of one map alone has
\* that map's value; a key of both has the merge of the two values when
\* both are maps and the user's value otherwise.
MergedByRule(merged, defaults, user) ==
    /\ Keys(merged) = Keys(defaults) \cup Keys(user)
    /\ \A i, j \in DOMAIN merged : merged[i].k = merged[j].k => i = j
    /\ \A k \in Keys(merged) :
        LET m == Get(merged, k).v IN
        IF ~HasKey(user, k) THEN m = Get(defaults, k).v
        ELSE IF ~HasKey(defaults, k) THEN m = Get(user, k).v
        ELSE IF IsDict(Get(defaults, k).v) /\ IsDict(Get(user, k).v)
             THEN IsDict(m) /\ MergedByRule(m.d, Get(defaults, k).v.d, Get(user, k).v.d)
             ELSE m = Get(user, k).v

\* C23: apply_defaults merges by the rule: a key of both the defaults and
\* the section holds the recursive merge when both values are maps and
\* exactly the user's value otherwise (no default sub-value remains under a
\* user's scalar, and a user's map over a scalar default stays as it is).
C23_DeepMergeRule ==
    ApplyingDefaults =>
        MergedByRule(call.res, GetDefaultsForLayout(call.layout_fields), call.section)

\* The user gives a scalar where the default is a map and a map where the
\* default is a scalar, and the result holds both as given.
C23_Witness ==
    /\ ApplyingDefaults
    /\ LET defaults == GetDefaultsForLayout(call.layout_fields) IN
       \E k1, k2 \in Keys(defaults) \cap Keys(call.section) :
           /\ IsDict(Get(defaults, k1).v) /\ ~IsDict(Get(call.section, k1).v)
           /\ ~IsDict(Get(defaults, k2).v) /\ IsDict(Get(call.section, k2).v)
           /\ Get(call.res, k1).v = Get(call.section, k1).v
           /\ Get(call.res, k2).v = Get(call.section, k2).v

Built == call.op = "ACFIndex"

RECURSIVE TraversalOf(_)
RECURSIVE TraversalOfLayouts(_)
\* The fields reachable from a list of fields through sub_fields and through
\* the sub_fields of layouts, in the order of the traversal: a field, what
\* lies under its sub_fields, what lies under its layouts, the next field.
TraversalOf(fields) ==
    IF fields = << >> THEN << >>
    ELSE <<Head(fields)>> \o TraversalOf(Head(fields).sub_fields)
            \o TraversalOfLayouts(Head(fields).layouts) \o TraversalOf(Tail(fields))

TraversalOfLayouts(layouts) ==
    IF layouts = << >> THEN << >>
    ELSE TraversalOf(Head(layouts).sub_fields) \o TraversalOfLayouts(Tail(layouts))

RECURSIVE TraversalOfGroups(_)
TraversalOfGroups(groups) ==
    IF groups = << >> THEN << >>
    ELSE TraversalOf(Head(groups).fields) \o TraversalOfGroups(Tail(groups))

\* The entry of key k met last in a list of entries.
LastWithKey(entries, k) ==
    entries[CHOOSE i \in DOMAIN entries :
        /\ entries[i].key = k
        /\ \A j \in DOMAIN entries : entries[j].key = k => j <= i]

\* The index holds the groups of the list under their keys and every keyed
\* field reachable from them, the entry met later where two share a key.
Indexes(idx, groups) ==
    /\ DOMAIN idx.groups = {g.key : g \in Range(groups)}
    /\ \A k \in DOMAIN idx.groups : idx.groups[k] = LastWithKey(groups, k)
    /\ LET met == TraversalOfGroups(groups) IN
        /\ DOMAIN idx.fields = {f.key : f \in Range(met)} \ {EmptyStr}
        /\ \A k \in DOMAIN idx.fields : idx.fields[k] = LastWithKey(met, k)

\* C25 (as stated): the index holds every group of the export and every
\* keyed field reachable from any group of the export, the later entry
\* where two share a key.
C25_IndexHoldsEveryGroupAndField == Built => Indexes(index, export)

KeyedGroups == SelectSeq(export, LAMBDA g : g.key # EmptyStr)

\* C25 (amended): the index holds every group of the export that has a key
\* and every keyed field reachable from a group that has a key, the later
\* entry where two share a key; a group without a key is left out together
\* with its fields.
C25_IndexHoldsKeyedGroupsAndTheirFields == Built => Indexes(index, KeyedGroups)

\* A group without a key holds a keyed field that the index lacks, and a
\* field key is met twice with different fields, of which the index holds
\* the later.
C25_Witness ==
    /\ Built
    /\ \E i \in DOMAIN export :
           /\ export[i].key = EmptyStr
           /\ \E f \in Range(export[i].fields) :
                  f.key # EmptyStr /\ f.key \notin DOMAIN index.fields
    /\ LET met == TraversalOfGroups(KeyedGroups) IN
       \E i, j \in DOMAIN met : /\ i < j /\ met[i].key = met[j].key /\ met[i] # met[j]
                                /\ index.fields[met[i].key] = met[j]

TransformingList == call.op = "transform_to_acf"

\* The indices of the sections for which validate_sections, given the list
\* and the mapping of the call, emits a missing-layout or an unknown-layout
\* warning.
LayoutWarned ==
    LET warnings == ValidateSections(call.sections, call.mapping) IN
    {i \in DOMAIN call.sections :
        \E j \in DOMAIN warnings :
            /\ warnings[j].kind \in {"missing_layout", "unknown_layout"}
            /\ warnings[j].index = i - 1}

\* The sections of the call without such a warning, in their order.
RECURSIVE Unwarned(_)
Unwarned(n) ==
    IF n = 0 THEN << >>
    ELSE IF n \in LayoutWarned THEN Unwarned(n - 1)
    ELSE Append(Unwarned(n - 1), call.sections[n])

\* The wire sections of the payload of the call.
WireSections == call.res.out[1].v.d[1].v.l

\* C26: transform_to_acf drops exactly the sections for which
\* validate_sections emits a missing-layout or unknown-layout warning: the
\* wire sections are, in order, the translations of the sections without
\* such a warning, as many as there are.
C26_ValidateAndTransformAgree ==
    TransformingList =>
        /\ call.res.st = "ok"
        /\ Len(WireSections) = Len(call.sections) - Cardinality(LayoutWarned)
        /\ LET kept == Unwarned(Len(call.sections)) IN
           /\ Len(kept) = Len(WireSections)
           /\ \A j \in DOMAIN kept :
                  WireSections[j] = Map(TransformSection(kept[j], call.mapping).out)

\* A list with a section without layout, a section of an unknown layout
\* and a section of a known layout: one wire section is emitted.
C26_Witness ==
    /\ TransformingList
    /\ Len(call.sections) = 3
    /\ Cardinality(LayoutWarned) = 2
    /\ \E i, j \in DOMAIN call.sections :
           /\ ~HasKey(call.sections[i], ACF_FC_LAYOUT)
           /\ HasKey(call.sections[j], ACF_FC_LAYOUT)
           /\ Truthy(LayoutNameOf(call.sections[j]))
           /\ ~HasLayout(call.mapping, LayoutNameOf(call.sections[j]))
    /\ Len(WireSections) = 1

\* validate_sections has no warning for the section of the call.
AcceptedWithoutWarning ==
    AcceptedCall /\ ValidateSections(<<call.section>>, call.mapping) = << >>

\* The values the user supplied: the leaves of the section as given.
UserLeaves == LeafSeq(WithoutLayout(call.section), << >>)

MappedFieldKeys(fields) == {fields[i].key : i \in {j \in 1..Len(fields) : fields[j].leaf}}

\* A list under the name of a top-level repeater entry.
TopLevelRepeater(leaf, fields) == Len(leaf.path) = 1 /\ RepeaterPath(leaf, fields)

\* The wire section holds the rows of the list under the bare repeater
\* name, the names of each row replaced by field keys.
RowsKeyedByFieldKeys(leaf, fields, out) ==
    /\ HasKey(out, leaf.path[1])
    /\ IsList(Get(out, leaf.path[1]).v)
    /\ \A row \in Range(Get(out, leaf.path[1]).v.l) :
           IsDict(row) => Keys(row.d) \subseteq MappedFieldKeys(SubMappingOf(leaf, fields))

AddedDefaults(section, layout_fields) ==
    LeavesOf(ApplyDefaults(section, layout_fields)) \ LeavesOf(section)

\* C28: every default value apply_defaults adds lies at a leaf path of the
\* layout's PathMapping, and transform_section, on a section of a known
\* layout whose own paths validate_sections all knows, emits no default
\* value under a literal name.
C28_DefaultsLieAtLeafPaths ==
    /\ ApplyingDefaults =>
         \A leaf \in AddedDefaults(call.section, call.layout_fields) :
             KnownLeafPath(call.layout_fields, JoinDots(leaf.path))
    /\ AcceptedWithoutWarning =>
         \A leaf \in AddedDefaults(WithoutLayout(call.section), FieldsOfCall) :
             /\ KnownLeafPath(FieldsOfCall, JoinDots(leaf.path))
             /\ ~HasKey(call.res.out, JoinDots(leaf.path))

\* The tree a call of SpecDefaults returned is held by the caller.
Returned == call.root # 0

\* C29: the default tables hold their initial values after every call of
\* get_defaults_for_layout, apply_defaults and transform_section and every
\* assignment of a caller to a tree it was given, and no dict of a returned
\* tree is a dict of a table.
C29_DefaultTablesKeepTheirValues ==
    /\ Len(call.heap) >= Len(TablesHeap)
    /\ Deref(call.heap, COMMON_ADDR) = COMMON_FIELD_DEFAULTS
    /\ Deref(call.heap, HEADING_ADDR) = HEADING_DEFAULTS
    /\ Deref(call.heap, READ_MORE_ADDR) = READ_MORE_DEFAULTS
    /\ Returned => ReachableFrom(call.heap, call.root) \cap TableObjects = {}
    /\ (Returned /\ call.writes = 0) =>
         /\ call.op = "get_defaults_for_layout" =>
              Deref(call.heap, call.root) = GetDefaultsForLayout(call.layout_fields)
         /\ call.op = "apply_defaults" =>
              Deref(call.heap, call.root) = ApplyDefaults(call.section, call.layout_fields)

\* A caller has written into the alignment map and into the heading map of
\* a tree apply_defaults returned for a layout with heading defaults.
C29_Witness ==
    /\ call.op = "apply_defaults"
    /\ call.writes = 2
    /\ HasKey(call.layout_fields, HeadingTextPath)
    /\ LET tree == Deref(call.heap, call.root) IN
       /\ HasKey(tree, Str("heading"))
       /\ IsDict(Get(tree, Str("heading")).v)
       /\ Get(Get(tree, Str("heading")).v.d, Str("level")).v = Text("changed")
       /\ IsDict(Get(Get(tree, Str("heading")).v.d, Str("alignment")).v)
       /\ Get(Get(Get(tree, Str("heading")).v.d, Str("alignment")).v.d, Str("desktop")).v
              = Text("changed")

\* No two fields of the export, at any depth, have one key.
DistinctSchemaKeys ==
    LET met == TraversalOfGroups(export) IN
    \A i, j \in DOMAIN met : met[i].key = met[j].key => i = j

RECURSIVE KeysOnce(_)
\* No two paths of the mapping have one field key, and none of a mapping
\* nested in it.
KeysOnce(m) ==
    /\ \A i, j \in DOMAIN m : (m[i].leaf /\ m[j].leaf /\ m[i].key = m[j].key) => i = j
    /\ \A i \in DOMAIN m : KeysOnce(m[i].sub)

\* C30 (as stated): with pairwise distinct field keys in the schema, no two
\* paths of a compiled mapping, or of a repeater mapping nested in it, map
\* to one field key.
C30_DistinctPathsDistinctKeys ==
    (BuildOk /\ DistinctSchemaKeys) => KeysOnce(call.res.map)

RECURSIVE NamedFields(_, _)
\* The schema fields the references of a list name: the fields of a group,
\* a field.
NamedFields(refs, idx) ==
    IF refs = << >> THEN << >>
    ELSE (IF Head(refs) \in DOMAIN idx.groups THEN idx.groups[Head(refs)].fields
          ELSE IF Head(refs) \in DOMAIN idx.fields THEN <<idx.fields[Head(refs)]>>
          ELSE << >>)
         \o NamedFields(Tail(refs), idx)

\* The references of the clone name one schema field more than once, itself
\* or under the sub_fields of a field they name.
DeliversTwice(c, idx) ==
    LET met == TraversalOf(NamedFields(c.clone, idx)) IN
    \E i, j \in DOMAIN met : i < j /\ met[i].key = met[j].key

\* The clones resolved while the list of the call is compiled.
ClonesOfCall ==
    {index.fields[k] : k \in ResolvedClones(NestedClones(call.fields), index)}

\* C30 (amended): with pairwise distinct field keys in the schema, no two
\* paths of a compiled mapping, or of a repeater mapping nested in it, map
\* to one field key, unless the reference list of a clone of the
\* compilation names one schema field more than once, itself or under the
\* sub_fields of another field it names.
C30_DistinctKeysUnlessDeliveredTwice ==
    (/\ BuildOk
     /\ DistinctSchemaKeys
     /\ \A c \in ClonesOfCall : ~DeliversTwice(c, index))
    => KeysOnce(call.res.map)

\* A compilation through clones none of which names a field twice: leaves
\* at the top level, inside a group and inside a repeater, one key each.
C30_Witness ==
    /\ BuildOk
    /\ DistinctSchemaKeys
    /\ ClonesOfCall # {}
    /\ \A c \in ClonesOfCall : ~DeliversTwice(c, index)
    /\ KeysOnce(call.res.map)
    /\ \E i, j, r \in DOMAIN call.res.map :
           /\ i # j
           /\ call.res.map[i].leaf /\ call.res.map[j].leaf
           /\ \E x \in DOMAIN call.res.map[j].k : call.res.map[j].k[x] = "."
           /\ ~call.res.map[r].leaf /\ call.res.map[r].sub # << >>

====
